---------------------------- MODULE Spec2Model ----------------------------
(***************************************************************************)
(* A model of the thread_condenser normalisation and condensation          *)
(* pipeline: the segmenter, the ranker, the provenance linker, the         *)
(* ingestion normaliser with its SQLAlchemy session, the Graph             *)
(* notification translator and the condense run that chains them.          *)
(*                                                                         *)
(* Python strings are TLA+ strings; Python dicts are functions whose       *)
(* domain is the set of keys; Python None is the value NONE.  Each         *)
(* component has its own variables and its own specification; the          *)
(* variables of the other components stay at their idle values.            *)
(***************************************************************************)
EXTENDS Integers, Sequences, FiniteSets, TLC

VARIABLES
    \* segment_messages (app/pipeline/segment.py)
    seg_messages,     \* the argument `messages`
    seg_max_tokens,   \* the argument `max_tokens`
    seg_i,            \* position of the for loop in `messages`
    seg_buf,          \* `buf`: the lines of the chunk being filled
    seg_tokens,       \* `tokens`: the token cost of buf
    seg_segments,     \* `segments`: the joined chunks closed so far
    seg_chunks,       \* for each entry of `segments`, the buf it was joined from
    seg_pc,           \* "loop" while iterating, "done" after the return
    \* rank_and_filter (app/pipeline/rank.py)
    rank_input,       \* the argument `result` as it was passed
    rank_result,      \* the `result` object, mutated in place
    rank_reactions_index,  \* the argument `reactions_index`
    rank_threshold,   \* the argument `threshold`, in hundredths
    rank_attr,        \* position of `for attr in [...]`
    rank_pc,          \* "loop" while iterating, "done" after the return
    \* attach_links (app/pipeline/provenance.py)
    link_messages,    \* the argument `messages`
    link_input,       \* the argument `brief` as it was passed
    link_brief,       \* the `brief` object, mutated in place
    link_index,       \* `index`: canonical id -> Message
    link_i,           \* position of `for msg in messages`
    link_section,     \* position of `for section in [...]`
    link_pc,          \* "index", "sections", then "done" after the return
    \* the canonical store (app/models.py): the committed rows
    db_workspaces,
    db_channels,
    db_users,
    db_threads,
    db_messages,
    \* the SQLAlchemy session of a run (app/db.py, autoflush=False)
    sess_new,         \* Message objects added and not yet flushed
    sess_dirty,       \* Message rows modified in the session: key -> row
    \* ingest_thread (app/pipeline/ingest.py)
    ing_platform,     \* the argument `platform`
    ing_thread_ref,   \* the argument `thread_ref`
    ing_client,       \* whether the platform's client was passed
    ing_payloads,     \* the fetched `messages` / `payloads`
    ing_i,            \* position of `for payload in ...`
    ing_thread,       \* `thread`: the id of the Thread row, NONE before
    ing_previous_id,  \* `previous_id` of _ingest_outlook
    ing_updated,      \* source ids this run found stored and updated
    ing_before,       \* the messages table as it was when the run began
    ing_user_cache,   \* `user_cache` of _ingest_slack: the cached user ids
    ing_pc,           \* where the run is: "idle", "ensure", "loop", "done",
                      \* "preprocessed", "segmented", "extracted", "ranked",
                      \* "linked", "saved", "published", "failed",
                      \* "cancelled"
    \* _process_condense (app/workers/tasks.py)
    db_briefs,        \* the briefs table: run_id -> json_blob
    cond_runs,        \* how many runs were started
    cond_run_id,      \* `run_id`
    cond_messages,    \* `messages`, as preprocess_thread returned them
    cond_segments,    \* `segments`
    cond_brief,       \* `brief` / `ranked`: the CondenseResult in the making
    cond_published,   \* what adapter.publish_brief was given
    cond_completions, \* how many times the run called llm.complete_json
    cond_raw,         \* `raw`: the last answer of llm.complete_json
    cond_briefs_before,  \* the briefs table as it was when the run began
    \* graph_notifications (app/api/v1.py)
    ntf_token,        \* payload.validationToken
    ntf_value,        \* payload.value: the notifications
    ntf_i,            \* position of `for notification in payload.value`
    ntf_calls,        \* the calls of trigger_condense, in order
    ntf_response,     \* what the handler returned
    ntf_pc,           \* "idle", "handling", "done"
    \* _parse_graph_resource (app/api/v1.py)
    prs_pairs,        \* the (entity name, value, form) pairs the path was built from
    prs_resource,     \* the argument resource
    prs_parsed,       \* the mapping returned
    prs_pc,           \* "idle", "called", "returned"
    \* preprocess_thread run again over a stored Message (app/pipeline/preprocess.py)
    nrm_msg,          \* the Message row, as the last run left it
    nrm_first,        \* the row as the first run left it
    nrm_runs,         \* how many runs went over the row
    \* two runs of ingest_thread on one thread reference, statement by statement (app/pipeline/ingest.py)
    rc_platform,      \* the platform of the thread reference
    rc_rows,          \* the committed rows of the five tables
    rc_stage,         \* for each run, the table its find-or-create is at
    rc_phase,         \* for each run, "lookup", "write", "done" or "failed"
    rc_found,         \* for each run, the primary key its lookup returned, or NONE
    rc_held,          \* for each run, table -> primary key of the row it holds
    \* TeamsAdapter (app/platforms/teams/bot.py) with a recording publisher
    tms_source,       \* "activity" or "thread_ref": what the context is built from
    tms_input,        \* the Activity or the thread reference
    tms_context,      \* the ThreadContext, EmptyDict before it is built
    tms_serialized,   \* what serialize_thread_ref returned
    tms_calls,        \* the calls the publisher received, in order
    tms_brief,        \* the brief handed to publish_brief
    tms_pc,           \* "idle", "start", "context", "serialized", "noticed", "done"
    \* extract_items (app/pipeline/extract.py) on raw completion output
    ext_platform,     \* the platform of the request
    ext_thread_ref,   \* the thread reference of the request
    ext_raw,          \* what llm.complete_json returned, a dict
    ext_result,       \* the CondenseResult returned, EmptyDict before and on failure
    ext_pc,           \* "idle", "start", "returned", "raised"
    \* the thread reference builders of app/api/v1.py on one notification
    bld_builder,      \* "msteams" or "outlook": the builder applied
    bld_note,         \* the notification: resource and resourceData
    bld_built,        \* what the builder returned
    bld_pc,           \* "idle", "start", "built"
    \* score_item (app/pipeline/rank.py) on one item
    scr_item,         \* the item scored
    scr_index,        \* the reaction index: canonical id -> count
    scr_weights,      \* seniority_weight, recency_bonus, contradiction_penalty
    scr_score,        \* what score_item returned, NONE before
    scr_ranked,       \* the decisions rank_and_filter left of [item], NONE before
    scr_pc,           \* "idle", "start", "scored", "ranked"
    \* trigger_condense and the control flow of _process_condense (app/workers/tasks.py)
    prc_triggers,     \* how many times trigger_condense or enqueue_condense.delay was called
    prc_caller,       \* the caller's options mapping before and after the last trigger_condense
    prc_returned,     \* the run ids trigger_condense returned, in call order
    prc_queue,        \* the tasks enqueued and not yet run
    prc_task,         \* the task being run, EmptyDict when none
    prc_run_id,       \* run_id of the run
    prc_pc,           \* "idle", "clients", a stage name, "finally", "returned", "raised"
    prc_stages,       \* the stages of this run started so far, in order
    prc_error,        \* the stage whose exception is in flight, NONE when none
    prc_slack_open,   \* slack_client is not None
    prc_closes,       \* how often db.close() and slack_client.close() ran in this run
    prc_briefs,       \* the rows of the briefs table
    prc_published     \* the tasks whose brief was published, in order

segVars == <<seg_messages, seg_max_tokens, seg_i, seg_buf, seg_tokens,
             seg_segments, seg_chunks, seg_pc>>

rankVars == <<rank_input, rank_result, rank_reactions_index, rank_threshold,
              rank_attr, rank_pc>>

linkVars == <<link_messages, link_input, link_brief, link_index, link_i,
              link_section, link_pc>>

dbVars == <<db_workspaces, db_channels, db_users, db_threads, db_messages>>

sessVars == <<sess_new, sess_dirty>>

ingVars == <<ing_platform, ing_thread_ref, ing_client, ing_payloads, ing_i,
             ing_thread, ing_previous_id, ing_updated, ing_before,
             ing_user_cache, ing_pc>>

condVars == <<db_briefs, cond_runs, cond_run_id, cond_messages, cond_segments,
              cond_brief, cond_published, cond_completions, cond_raw,
              cond_briefs_before>>

ntfVars == <<ntf_token, ntf_value, ntf_i, ntf_calls, ntf_response, ntf_pc>>

prsVars == <<prs_pairs, prs_resource, prs_parsed, prs_pc>>

nrmVars == <<nrm_msg, nrm_first, nrm_runs>>

raceVars == <<rc_platform, rc_rows, rc_stage, rc_phase, rc_found, rc_held>>

tmsVars == <<tms_source, tms_input, tms_context, tms_serialized, tms_calls, tms_brief, tms_pc>>

extVars == <<ext_platform, ext_thread_ref, ext_raw, ext_result, ext_pc>>

bldVars == <<bld_builder, bld_note, bld_built, bld_pc>>

scrVars == <<scr_item, scr_index, scr_weights, scr_score, scr_ranked, scr_pc>>

prcVars == <<prc_triggers, prc_caller, prc_returned, prc_queue, prc_task, prc_run_id, prc_pc, prc_stages, prc_error, prc_slack_open, prc_closes, prc_briefs, prc_published>>

vars == <<segVars, rankVars, linkVars, dbVars, sessVars, ingVars, condVars,
          ntfVars, prsVars, nrmVars, raceVars, tmsVars, extVars, bldVars, scrVars, prcVars>>

\* The variables of the other components
otherThanSeg ==
    <<rankVars, linkVars, dbVars, sessVars, ingVars, condVars, ntfVars, prsVars, nrmVars, raceVars, tmsVars, extVars, bldVars, scrVars, prcVars>>
otherThanRank ==
    <<segVars, linkVars, dbVars, sessVars, ingVars, condVars, ntfVars, prsVars, nrmVars, raceVars, tmsVars, extVars, bldVars, scrVars, prcVars>>
otherThanLink ==
    <<segVars, rankVars, dbVars, sessVars, ingVars, condVars, ntfVars, prsVars, nrmVars, raceVars, tmsVars, extVars, bldVars, scrVars, prcVars>>
otherThanIngest == <<segVars, rankVars, linkVars, condVars, ntfVars, prsVars, nrmVars, raceVars, tmsVars, extVars, bldVars, scrVars, prcVars>>
otherThanCondense == <<segVars, rankVars, linkVars, ntfVars, prsVars, nrmVars, raceVars, tmsVars, extVars, bldVars, scrVars, prcVars>>
otherThanNotify ==
    <<segVars, rankVars, linkVars, dbVars, sessVars, ingVars, condVars, prsVars, nrmVars, raceVars, tmsVars, extVars, bldVars, scrVars, prcVars>>
otherThanParse == <<segVars, rankVars, linkVars, dbVars, sessVars, ingVars, condVars, ntfVars, nrmVars, raceVars, tmsVars, extVars, bldVars, scrVars, prcVars>>
otherThanNormalize == <<segVars, rankVars, linkVars, dbVars, sessVars, ingVars, condVars, ntfVars, prsVars, raceVars, tmsVars, extVars, bldVars, scrVars, prcVars>>
otherThanRace == <<segVars, rankVars, linkVars, dbVars, sessVars, ingVars, condVars, ntfVars, prsVars, nrmVars, tmsVars, extVars, bldVars, scrVars, prcVars>>
otherThanTeams == <<segVars, rankVars, linkVars, dbVars, sessVars, ingVars, condVars, ntfVars, prsVars, nrmVars, raceVars, extVars, bldVars, scrVars, prcVars>>
otherThanExtract == <<segVars, rankVars, linkVars, dbVars, sessVars, ingVars, condVars, ntfVars, prsVars, nrmVars, raceVars, tmsVars, bldVars, scrVars, prcVars>>
otherThanBuild == <<segVars, rankVars, linkVars, dbVars, sessVars, ingVars, condVars, ntfVars, prsVars, nrmVars, raceVars, tmsVars, extVars, scrVars, prcVars>>
otherThanScore == <<segVars, rankVars, linkVars, dbVars, sessVars, ingVars, condVars, ntfVars, prsVars, nrmVars, raceVars, tmsVars, extVars, bldVars, prcVars>>
otherThanProcess == <<segVars, rankVars, linkVars, dbVars, sessVars, ingVars, condVars, ntfVars, prsVars, nrmVars, raceVars, tmsVars, extVars, bldVars, scrVars>>

----------------------------------------------------------------------------
(* Python values *)

\* Python's None
NONE == "<None>"

\* bool(v) for a str-or-None value
Truthy(v) == v # NONE /\ v # ""

\* a or b
Or(a, b) == IF Truthy(a) THEN a ELSE b

\* d.get(k)
Get(d, k) == IF k \in DOMAIN d THEN d[k] ELSE NONE

\* d[k] = v
Put(d, k, v) == [x \in (DOMAIN d) \cup {k} |-> IF x = k THEN v ELSE d[x]]

\* {}
EmptyDict == [x \in {} |-> NONE]

Max(a, b) == IF a >= b THEN a ELSE b

Min(a, b) == IF a <= b THEN a ELSE b

\* d.get(k, default)
GetOr(d, k, default) == IF k \in DOMAIN d THEN d[k] ELSE default

\* f"{platform}:{native_id}"
CanonicalOf(platform, native_id) == platform \o ":" \o native_id

\* metadata.get("canonical_id") or f"{msg.platform}:{msg.source_msg_id}"
MessageCanonical(msg) ==
    Or(Get(msg.metadata_json, "canonical_id"),
       CanonicalOf(msg.platform, msg.source_msg_id))

----------------------------------------------------------------------------
(* Text: the str methods and regular expressions the pipeline uses *)

\* s.startswith(prefix)
StartsWith(s, prefix) ==
    Len(s) >= Len(prefix) /\ SubSeq(s, 1, Len(prefix)) = prefix

\* s[n:]
Drop(s, n) == SubSeq(s, n + 1, Len(s))

\* s.replace(old, new)
RECURSIVE Replace(_, _, _)
Replace(s, old, new) ==
    IF Len(s) < Len(old) \/ s = "" THEN s
    ELSE IF StartsWith(s, old)
         THEN new \o Replace(Drop(s, Len(old)), old, new)
         ELSE SubSeq(s, 1, 1) \o Replace(Drop(s, 1), old, new)

Whitespace == {" ", "\t", "\n", "\r"}

RECURSIVE LStrip(_)
LStrip(s) ==
    IF s # "" /\ SubSeq(s, 1, 1) \in Whitespace THEN LStrip(Drop(s, 1)) ELSE s

RECURSIVE RStrip(_)
RStrip(s) ==
    IF s # "" /\ SubSeq(s, Len(s), Len(s)) \in Whitespace
    THEN RStrip(SubSeq(s, 1, Len(s) - 1))
    ELSE s

\* s.strip()
Strip(s) == RStrip(LStrip(s))

\* The length of the match of BR_RE = <br\s*/?>|</p> (re.I) at the start
\* of s, 0 when it does not match there
BrMatch(s) ==
    IF StartsWith(s, "</p>") \/ StartsWith(s, "</P>") THEN 4
    ELSE IF StartsWith(s, "<br") \/ StartsWith(s, "<BR")
              \/ StartsWith(s, "<Br") \/ StartsWith(s, "<bR")
    THEN LET Sp[k \in 3..Len(s)] ==
                 \* the position after the whitespace that starts at k + 1
                 IF k < Len(s) /\ SubSeq(s, k + 1, k + 1) \in Whitespace
                 THEN Sp[k + 1] ELSE k
             q == Sp[3]
             r == IF q < Len(s) /\ SubSeq(s, q + 1, q + 1) = "/"
                  THEN q + 1 ELSE q
         IN  IF r < Len(s) /\ SubSeq(s, r + 1, r + 1) = ">" THEN r + 1 ELSE 0
    ELSE 0

\* BR_RE.sub("\n", value)
RECURSIVE SubBr(_)
SubBr(s) ==
    IF s = "" THEN ""
    ELSE IF BrMatch(s) > 0 THEN "\n" \o SubBr(Drop(s, BrMatch(s)))
    ELSE SubSeq(s, 1, 1) \o SubBr(Drop(s, 1))

\* The length of the match of TAG_RE = <[^>]+> at the start of s, 0 when
\* it does not match there
TagMatch(s) ==
    IF ~StartsWith(s, "<") THEN 0
    ELSE LET closes == {k \in 2..Len(s) : SubSeq(s, k, k) = ">"}
         IN  IF closes = {} THEN 0
             ELSE LET k == CHOOSE c \in closes : \A d \in closes : c <= d
                  IN  IF k >= 3 THEN k ELSE 0

\* TAG_RE.sub("", text)
RECURSIVE SubTag(_)
SubTag(s) ==
    IF s = "" THEN ""
    ELSE IF TagMatch(s) > 0 THEN SubTag(Drop(s, TagMatch(s)))
    ELSE SubSeq(s, 1, 1) \o SubTag(Drop(s, 1))

\* html.unescape for the references the thread bodies carry: one pass,
\* left to right, over &amp; &lt; &gt; &quot;
HtmlEntities ==
    { <<"&amp;", "&">>, <<"&lt;", "<">>, <<"&gt;", ">">>, <<"&quot;", "\"">> }

RECURSIVE HtmlUnescape(_)
HtmlUnescape(s) ==
    IF s = "" THEN ""
    ELSE LET hits == {e \in HtmlEntities : StartsWith(s, e[1])}
         IN  IF hits # {}
             THEN LET e == CHOOSE h \in hits : TRUE
                  IN  e[2] \o HtmlUnescape(Drop(s, Len(e[1])))
             ELSE SubSeq(s, 1, 1) \o HtmlUnescape(Drop(s, 1))

\* _html_to_text
html_to_text(value) ==
    IF ~Truthy(value) THEN ""
    ELSE Strip(HtmlUnescape(SubTag(SubBr(value))))

\* sha1(text.encode("utf-8")).hexdigest(): a digest that tells texts apart
Sha1(text) == "sha1(" \o text \o ")"


----------------------------------------------------------------------------
(* Segmenter: app/pipeline/segment.py, app/llm/tokenization.py *)

\* Bounds of the segmenter's inputs
MaxMsgs == 3
MaxBudget == 10

SegTexts == {"", "hello", "a much longer text!!"}

\* The messages the segmenter is given: the i-th has source id i, any of the
\* texts, and a metadata mapping with or without its canonical id.
SegMessage(i, text, withCanonical) ==
    [platform |-> "slack",
     source_msg_id |-> ToString(i),
     text |-> text,
     metadata_json |->
        IF withCanonical
        THEN Put(EmptyDict, "canonical_id", CanonicalOf("slack", ToString(i)))
        ELSE EmptyDict]

\* count_tokens, the fallback heuristic: max(1, len(text) // 4 + 1)
count_tokens(text) == Max(1, (Len(text) \div 4) + 1)

\* line = f"[{canonical}] {message.text}\n"
RenderLine(message) ==
    "[" \o MessageCanonical(message) \o "] " \o message.text \o "\n"

\* "".join(buf)
RECURSIVE Join(_)
Join(buf) == IF buf = <<>> THEN "" ELSE Head(buf) \o Join(Tail(buf))

\* if tokens + count > max_tokens and buf  -- with the check made before
\* the new line is counted
ClosesChunkBeforeCounting(tokens, count, max_tokens, buf) ==
    tokens > max_tokens /\ buf # <<>>

\* if tokens + count >= max_tokens and buf  -- a chunk is closed when the
\* line would fill it exactly
ClosesChunkAtLimit(tokens, count, max_tokens, buf) ==
    tokens + count >= max_tokens /\ buf # <<>>

\* if tokens + count > max_tokens and buf
ClosesChunk(tokens, count, max_tokens, buf) ==
    tokens + count > max_tokens /\ buf # <<>>

\* buf = [] when a chunk is closed: the line that did not fit is lost
FreshBufEmpty(line) == <<>>

\* buf = [line]
FreshBuf(line) == <<line>>

SegInit ==
    /\ \E n \in 0..MaxMsgs :
         \E choice \in [1..n -> [text : SegTexts, withCanonical : BOOLEAN]] :
            seg_messages =
                [i \in 1..n |->
                    SegMessage(i, choice[i].text, choice[i].withCanonical)]
    /\ seg_max_tokens \in 0..MaxBudget
    /\ seg_i = 1
    /\ seg_buf = <<>>
    /\ seg_tokens = 0
    /\ seg_segments = <<>>
    /\ seg_chunks = <<>>
    /\ seg_pc = "loop"

\* One iteration of `for message in messages`
SegmentMessage ==
    /\ seg_pc = "loop"
    /\ seg_i <= Len(seg_messages)
    /\ LET line == RenderLine(seg_messages[seg_i])
           count == count_tokens(line)
       IN  IF ClosesChunk(seg_tokens, count, seg_max_tokens, seg_buf)
           THEN /\ seg_segments' = Append(seg_segments, Join(seg_buf))
                /\ seg_chunks' = Append(seg_chunks, seg_buf)
                /\ seg_buf' = FreshBuf(line)
                /\ seg_tokens' = count
           ELSE /\ seg_buf' = Append(seg_buf, line)
                /\ seg_tokens' = seg_tokens + count
                /\ UNCHANGED <<seg_segments, seg_chunks>>
    /\ seg_i' = seg_i + 1
    /\ UNCHANGED <<seg_messages, seg_max_tokens, seg_pc>>
    /\ UNCHANGED otherThanSeg

\* After the loop: `if buf: segments.append("".join(buf))`, then return
SegmentReturn ==
    /\ seg_pc = "loop"
    /\ seg_i > Len(seg_messages)
    /\ IF seg_buf # <<>>
       THEN /\ seg_segments' = Append(seg_segments, Join(seg_buf))
            /\ seg_chunks' = Append(seg_chunks, seg_buf)
       ELSE UNCHANGED <<seg_segments, seg_chunks>>
    /\ seg_pc' = "done"
    /\ UNCHANGED <<seg_messages, seg_max_tokens, seg_i, seg_buf, seg_tokens>>
    /\ UNCHANGED otherThanSeg

SegNext == SegmentMessage \/ SegmentReturn

\* segment_messages is not running
SegIdle ==
    /\ seg_messages = <<>>
    /\ seg_max_tokens = 0
    /\ seg_i = 1
    /\ seg_buf = <<>>
    /\ seg_tokens = 0
    /\ seg_segments = <<>>
    /\ seg_chunks = <<>>
    /\ seg_pc = "idle"

----------------------------------------------------------------------------
(* Ranker: app/pipeline/rank.py.  Confidences, scores and the threshold     *)
(* are counted in hundredths: 0.65 is 65, the reaction and seniority         *)
(* factor 0.05 is 5.                                                         *)

\* Bound of the ranker's inputs: the items of a result
MaxItems == 3

\* for attr in ["decisions", "risks", "actions", "open_questions"]
Attrs == <<"decisions", "risks", "actions", "open_questions">>

\* SupportRef(platform, native_id, msg_id, quote, url)
SupportRef(platform, native_id, msg_id, url) ==
    [platform |-> platform, native_id |-> native_id, msg_id |-> msg_id,
     quote |-> "q", url |-> url]

\* sum(reactions_index.get(ref.msg_id, 0) for ref in item.supporting_msgs)
RECURSIVE Agree(_, _)
Agree(refs, reactions_index) ==
    IF refs = <<>> THEN 0
    ELSE GetOr(reactions_index, Head(refs).msg_id, 0)
            + Agree(Tail(refs), reactions_index)

\* score_item without the upper clamp
score_item_unclamped(item, reactions_index, seniority_weight, recency_bonus, contradiction_penalty) ==
    LET base  == item.confidence
        agree == Agree(item.supporting_msgs, reactions_index)
        score == base + 5 * agree + 5 * seniority_weight
                    + recency_bonus - contradiction_penalty
    IN  Max(0, score)

\* score_item
score_item(item, reactions_index, seniority_weight, recency_bonus, contradiction_penalty) ==
    LET base  == item.confidence
        agree == Agree(item.supporting_msgs, reactions_index)
        score == base + 5 * agree + 5 * seniority_weight
                    + recency_bonus - contradiction_penalty
    IN  Max(0, Min(100, score))

\* if score > threshold: an item scoring exactly the threshold is dropped
KeepsItemStrict(score, threshold) == score > threshold

\* if score >= threshold
KeepsItem(score, threshold) == score >= threshold

\* the loop over one category: score, store the score, keep or drop
RECURSIVE ScoreAndFilter(_, _, _)
ScoreAndFilter(items, reactions_index, threshold) ==
    IF items = <<>> THEN <<>>
    ELSE LET item  == Head(items)
             score == score_item(item, reactions_index, 1, 0, 0)
             rest  == ScoreAndFilter(Tail(items), reactions_index, threshold)
         IN  IF KeepsItem(score, threshold)
             THEN <<[item EXCEPT !.confidence = score]>> \o rest
             ELSE rest

\* list.sort(key=lambda it: it.confidence, reverse=True): a stable sort, so
\* each item goes behind the items of equal or higher confidence before it
InsertByConfidence(sorted, item) ==
    LET p == Cardinality({j \in 1..Len(sorted) :
                             sorted[j].confidence >= item.confidence})
    IN  SubSeq(sorted, 1, p) \o <<item>> \o SubSeq(sorted, p + 1, Len(sorted))

RECURSIVE SortByConfidence(_)
SortByConfidence(items) ==
    IF items = <<>> THEN <<>>
    ELSE InsertByConfidence(
            SortByConfidence(SubSeq(items, 1, Len(items) - 1)),
            items[Len(items)])

\* the body of the loop for one attr: the list setattr stores
RankCategory(items, reactions_index, threshold) ==
    SortByConfidence(ScoreAndFilter(items, reactions_index, threshold))

\* rank_and_filter as a whole
rank_and_filter(result, reactions_index, threshold) ==
    [attr \in DOMAIN result |->
        IF attr \in {Attrs[k] : k \in 1..Len(Attrs)}
        THEN RankCategory(result[attr], reactions_index, threshold)
        ELSE result[attr]]

\* The items a result may hold: the n-th has title n
RankItem(n, confidence, refs) ==
    [title |-> ToString(n), confidence |-> confidence, supporting_msgs |-> refs]

RankRefChoices ==
    { <<>>,
      <<SupportRef("slack", "1", "slack:1", NONE)>>,
      <<SupportRef("slack", "1", "slack:1", NONE),
        SupportRef("slack", "9", "slack:9", NONE)>> }

RankConfidences == {55, 60, 90}

\* Where the n-th item of a result goes: all in one category, or dealt out
RankLayouts ==
    { [n \in 1..(MaxItems + 1) |-> "decisions"],
      [n \in 1..(MaxItems + 1) |-> "open_questions"],
      [n \in 1..(MaxItems + 1) |-> Attrs[((n - 1) % 2) + 2]] }

ItemsOf(pool, layout, attr) ==
    LET F[k \in 0..Len(pool)] ==
            IF k = 0 THEN <<>>
            ELSE IF layout[k] = attr THEN Append(F[k - 1], pool[k])
                 ELSE F[k - 1]
    IN  F[Len(pool)]

RankInit ==
    /\ \E n \in 0..MaxItems :
         \E choice \in [1..n -> [confidence : RankConfidences,
                                 refs : RankRefChoices]] :
            \E layout \in RankLayouts :
               LET pool == [k \in 1..n |->
                              RankItem(k, choice[k].confidence, choice[k].refs)]
               IN  rank_input =
                      [attr \in {Attrs[k] : k \in 1..Len(Attrs)} |->
                          ItemsOf(pool, layout, attr)]
    /\ rank_result = rank_input
    /\ rank_reactions_index \in
          { [x \in {} |-> 0], [x \in {"slack:1"} |-> 1],
            [x \in {"slack:1", "slack:2"} |-> 3] }
    /\ rank_threshold \in {65, 100}
    /\ rank_attr = 1
    /\ rank_pc = "loop"

\* One iteration of `for attr in [...]`
RankAttr ==
    /\ rank_pc = "loop"
    /\ rank_attr <= Len(Attrs)
    /\ rank_result' =
          [rank_result EXCEPT ![Attrs[rank_attr]] =
              RankCategory(@, rank_reactions_index, rank_threshold)]
    /\ rank_attr' = rank_attr + 1
    /\ UNCHANGED <<rank_input, rank_reactions_index, rank_threshold, rank_pc>>
    /\ UNCHANGED otherThanRank

\* return result
RankReturn ==
    /\ rank_pc = "loop"
    /\ rank_attr > Len(Attrs)
    /\ rank_pc' = "done"
    /\ UNCHANGED <<rank_input, rank_result, rank_reactions_index,
                   rank_threshold, rank_attr>>
    /\ UNCHANGED otherThanRank

RankNext == RankAttr \/ RankReturn

\* rank_and_filter is not running
RankIdle ==
    /\ rank_input = <<>>
    /\ rank_result = <<>>
    /\ rank_reactions_index = <<>>
    /\ rank_threshold = 0
    /\ rank_attr = 1
    /\ rank_pc = "idle"

----------------------------------------------------------------------------
(* Provenance linker: app/pipeline/provenance.py *)

\* Bounds of the linker's inputs: the messages and the evidence references
MaxLinkMsgs == 2
MaxRefs == 2

\* The metadata a stored Message may carry: its canonical id (or none yet)
\* and any of the three permalink fields, set, None or empty
LinkMetadataShapes ==
    { [permalink |-> "https://slack/p", webUrl |-> "https://teams/w",
       webLink |-> "https://outlook/l"],
      [webUrl |-> "https://teams/w"],
      [webUrl |-> NONE],
      [webLink |-> "https://outlook/l"],
      [permalink |-> "", webUrl |-> "https://teams/w",
       webLink |-> "https://outlook/l"],
      [permalink |-> NONE, webUrl |-> "", webLink |-> "https://outlook/l"] }

LinkMessage(i, shape, withCanonical) ==
    [platform |-> "slack",
     source_msg_id |-> ToString(i),
     metadata_json |->
        IF withCanonical
        THEN Put(shape, "canonical_id", CanonicalOf("slack", ToString(i)))
        ELSE shape]

\* The evidence references extraction may hand over
LinkRefChoices ==
    { SupportRef("slack", "1", "slack:1", NONE),
      SupportRef("msteams", "stale", "slack:2", "https://llm/guess"),
      SupportRef("slack", "1", "", NONE),
      SupportRef("slack", "7", "slack:7", NONE),
      SupportRef("slack", "8", "slack:8", "https://llm/guess") }

\* index[canonical] = msg
IndexMessage(index, msg) == Put(index, MessageCanonical(msg), msg)

\* ref.url = ... with the order of the first two fields swapped
LinkUrlWebFirst(metadata) ==
    Or(Get(metadata, "webUrl"),
       Or(Get(metadata, "permalink"), Get(metadata, "webLink")))

\* metadata.get("permalink") or metadata.get("webUrl") or metadata.get("webLink")
LinkUrl(metadata) ==
    Or(Get(metadata, "permalink"),
       Or(Get(metadata, "webUrl"), Get(metadata, "webLink")))

\* the body of `for ref in item.supporting_msgs`
LinkRef(ref, index) ==
    LET canonical == Or(ref.msg_id, CanonicalOf(ref.platform, ref.native_id))
    IN  IF canonical \notin DOMAIN index
        THEN ref
        ELSE LET msg == index[canonical]
                 metadata == msg.metadata_json
             IN  [ref EXCEPT
                    !.platform = msg.platform,
                    !.native_id = msg.source_msg_id,
                    !.msg_id = GetOr(metadata, "canonical_id", canonical),
                    !.url = LinkUrl(metadata)]

\* for item in section: for ref in item.supporting_msgs
LinkSection(section, index) ==
    [k \in 1..Len(section) |->
        [section[k] EXCEPT !.supporting_msgs =
            [r \in 1..Len(@) |-> LinkRef(@[r], index)]]]

RECURSIVE BuildIndex(_, _)
BuildIndex(index, messages) ==
    IF messages = <<>> THEN index
    ELSE BuildIndex(IndexMessage(index, Head(messages)), Tail(messages))

\* attach_links as a whole
attach_links(messages, brief) ==
    LET index == BuildIndex(EmptyDict, messages)
    IN  [attr \in DOMAIN brief |->
            IF attr \in {Attrs[k] : k \in 1..Len(Attrs)}
            THEN LinkSection(brief[attr], index)
            ELSE brief[attr]]

\* Where the references of a brief sit: all on one decision, or one item
\* each, dealt over the four sections
LinkBriefs(refs) ==
    { [attr \in {Attrs[k] : k \in 1..Len(Attrs)} |->
          IF attr = "decisions"
          THEN <<RankItem(1, 90, refs)>>
          ELSE <<>>],
      [attr \in {Attrs[k] : k \in 1..Len(Attrs)} |->
          LET F[k \in 0..Len(refs)] ==
                IF k = 0 THEN <<>>
                ELSE IF Attrs[((k - 1) % 4) + 1] = attr
                     THEN Append(F[k - 1], RankItem(k, 90, <<refs[k]>>))
                     ELSE F[k - 1]
          IN  F[Len(refs)]] }

LinkInit ==
    /\ \E n \in 0..MaxLinkMsgs :
         \E choice \in [1..n -> [shape : LinkMetadataShapes,
                                 withCanonical : BOOLEAN]] :
            link_messages =
               [i \in 1..n |->
                   LinkMessage(i, choice[i].shape, choice[i].withCanonical)]
    /\ \E n \in 0..MaxRefs :
         \E refs \in [1..n -> LinkRefChoices] :
            link_input \in LinkBriefs(refs)
    /\ link_brief = link_input
    /\ link_index = EmptyDict
    /\ link_i = 1
    /\ link_section = 1
    /\ link_pc = "index"

\* One iteration of `for msg in messages`
LinkIndexMessage ==
    /\ link_pc = "index"
    /\ link_i <= Len(link_messages)
    /\ link_index' = IndexMessage(link_index, link_messages[link_i])
    /\ link_i' = link_i + 1
    /\ UNCHANGED <<link_messages, link_input, link_brief, link_section, link_pc>>
    /\ UNCHANGED otherThanLink

\* The index is built: on to the sections
LinkIndexDone ==
    /\ link_pc = "index"
    /\ link_i > Len(link_messages)
    /\ link_pc' = "sections"
    /\ UNCHANGED <<link_messages, link_input, link_brief, link_index, link_i,
                   link_section>>
    /\ UNCHANGED otherThanLink

\* One iteration of `for section in [...]`
LinkOneSection ==
    /\ link_pc = "sections"
    /\ link_section <= Len(Attrs)
    /\ link_brief' =
          [link_brief EXCEPT ![Attrs[link_section]] = LinkSection(@, link_index)]
    /\ link_section' = link_section + 1
    /\ UNCHANGED <<link_messages, link_input, link_index, link_i, link_pc>>
    /\ UNCHANGED otherThanLink

\* return brief
LinkReturn ==
    /\ link_pc = "sections"
    /\ link_section > Len(Attrs)
    /\ link_pc' = "done"
    /\ UNCHANGED <<link_messages, link_input, link_brief, link_index, link_i,
                   link_section>>
    /\ UNCHANGED otherThanLink

LinkNext == LinkIndexMessage \/ LinkIndexDone \/ LinkOneSection \/ LinkReturn

\* attach_links is not running
LinkIdle ==
    /\ link_messages = <<>>
    /\ link_input = <<>>
    /\ link_brief = <<>>
    /\ link_index = <<>>
    /\ link_i = 1
    /\ link_section = 1
    /\ link_pc = "idle"

----------------------------------------------------------------------------
(* The canonical store and the ingestion normaliser:                       *)
(* app/models.py, app/db.py, app/pipeline/ingest.py.                       *)
(* A table is a mapping from the natural key of a row to the row; a row's  *)
(* id is its natural key.  Only string-valued metadata is kept.            *)

\* Bound of the ingestion inputs: the messages one fetch returns
MaxFetch == 2

Platforms == {"slack", "msteams", "outlook"}

\* The platforms ingest_thread may be called with: one of them unsupported
CalledPlatforms == Platforms \cup {"discord"}

\* d.setdefault(k, v)
SetDefault(d, k, v) == IF k \in DOMAIN d THEN d ELSE Put(d, k, v)

\* d.update(e)
Update(d, e) ==
    [k \in (DOMAIN d) \cup (DOMAIN e) |-> IF k \in DOMAIN e THEN e[k] ELSE d[k]]

Key3(a, b, c) == a \o "|" \o b \o "|" \o c

\* The thread reference a run is given, by platform
ThreadRefOf(platform) ==
    CASE platform = "slack" ->
            [team_id |-> "T1", channel_id |-> "C1", thread_ts |-> "1"]
      [] platform = "msteams" ->
            [tenant_id |-> "tenant", conversation_type |-> "channel",
             team_id |-> "team", channel_id |-> "chan", message_id |-> "1"]
      [] OTHER ->
            [tenant_id |-> "tenant", mailbox |-> "ann@x.org",
             conversation_id |-> "conv"]

\* What a fetch may return, by platform.  A Slack message: ts, user, bot_id,
\* text, thread_ts, reactions [{name, count}].
SlackPayloads ==
    { [ts |-> "1", user |-> "U1", bot_id |-> NONE, text |-> "root &amp; all",
       thread_ts |-> "1", reactions |-> <<[name |-> "+1", count |-> 2]>>],
      [ts |-> "1", user |-> "U1", bot_id |-> NONE, text |-> "root, edited",
       thread_ts |-> "1", reactions |-> <<>>],
      [ts |-> "2", user |-> NONE, bot_id |-> "B7", text |-> " reply ",
       thread_ts |-> "1",
       reactions |-> <<[name |-> "+1", count |-> 1],
                       [name |-> "eyes", count |-> 1]>>],
      [ts |-> "2", user |-> NONE, bot_id |-> NONE, text |-> NONE,
       thread_ts |-> NONE, reactions |-> <<>>] }

\* What users_info may answer: a failure, or a profile
SlackProfiles ==
    { [ok |-> FALSE, display_name |-> NONE, real_name |-> NONE, email |-> NONE],
      [ok |-> TRUE, display_name |-> "ann", real_name |-> "Ann",
       email |-> "ann@x.org"],
      [ok |-> TRUE, display_name |-> "", real_name |-> NONE, email |-> NONE] }

\* A Teams chatMessage: id, from.user, body.content, createdDateTime,
\* replyToId, reactions [{reactionType}], webUrl
TeamsPayloads ==
    { [id |-> "1", user_id |-> "u1", displayName |-> "Ann", email |-> NONE,
       content |-> "<p>Hello &amp; bye</p>", created |-> 1, replyToId |-> NONE,
       reactions |-> <<"like", "like", "heart">>, webUrl |-> "https://teams/1"],
      [id |-> "1", user_id |-> "u1", displayName |-> "Ann B",
       email |-> "ann@x.org", content |-> "edited", created |-> 1,
       replyToId |-> NONE, reactions |-> <<>>, webUrl |-> "https://teams/1"],
      [id |-> "2", user_id |-> NONE, displayName |-> NONE, email |-> NONE,
       content |-> "a<br/>b\r", created |-> 2, replyToId |-> NONE,
       reactions |-> <<"like">>, webUrl |-> NONE],
      [id |-> "2", user_id |-> "u2", displayName |-> NONE, email |-> NONE,
       content |-> "", created |-> 2, replyToId |-> "1",
       reactions |-> <<>>, webUrl |-> "https://teams/2"] }

\* An Outlook message: id, from.emailAddress, body.content, sentDateTime,
\* replyToId, webLink
OutlookPayloads ==
    { [id |-> "1", address |-> "ann@x.org", name |-> "Ann",
       content |-> "<div>Hi &lt;all&gt;</div>", created |-> 1,
       replyToId |-> NONE, webLink |-> "https://outlook/1"],
      [id |-> "1", address |-> "ann@x.org", name |-> "Ann B",
       content |-> "Hi, edited", created |-> 1,
       replyToId |-> NONE, webLink |-> "https://outlook/1"],
      [id |-> "2", address |-> NONE, name |-> "Bob",
       content |-> "Re: hi<br>", created |-> 2,
       replyToId |-> NONE, webLink |-> NONE],
      [id |-> "2", address |-> "bob@x.org", name |-> NONE,
       content |-> NONE, created |-> 2,
       replyToId |-> "1", webLink |-> "https://outlook/2"] }

SeqsUpTo(S, n) == UNION { [1..k -> S] : k \in 0..n }

\* The lists a fetch may return: any list of Slack messages (the root may
\* repeat), the Teams root followed by replies, any list of Outlook messages
FetchResults(platform) ==
    CASE platform = "slack" -> SeqsUpTo(SlackPayloads, MaxFetch)
      [] platform = "msteams" ->
            { <<root>> \o replies :
                root \in {m \in TeamsPayloads : m.id = "1"},
                replies \in SeqsUpTo({m \in TeamsPayloads : m.id = "2"},
                                     MaxFetch - 1) }
      [] OTHER -> SeqsUpTo(OutlookPayloads, MaxFetch)

\* The native id of a fetched message: payload["ts"] / payload["id"]
NativeId(platform, payload) ==
    IF platform = "slack" THEN payload.ts ELSE payload.id

\* float(ts)
TsNumber(ts) == CHOOSE n \in 0..9 : ToString(n) = ts

\* _ensure_workspace: the key looked up, which is also the row's id
WorkspaceId(platform, workspace_key) ==
    IF platform = "slack"
    THEN "slack_team_id=" \o workspace_key
    ELSE "m365_tenant_id=" \o workspace_key

\* _ensure_workspace
EnsureWorkspace(table, platform, workspace_key) ==
    LET id == WorkspaceId(platform, workspace_key)
    IN  IF id \in DOMAIN table THEN table
        ELSE Put(table, id,
                 [id |-> id,
                  slack_team_id |->
                      IF platform = "slack" THEN workspace_key ELSE NONE,
                  m365_tenant_id |->
                      IF platform # "slack" THEN workspace_key ELSE NONE])

\* _ensure_channel
EnsureChannel(table, workspace_id, platform, external_id, parent_resource_id, display_name, mailbox, metadata) ==
    LET id == Key3(workspace_id, platform, external_id)
    IN  IF id \notin DOMAIN table
        THEN Put(table, id,
                 [id |-> id, workspace_id |-> workspace_id,
                  platform |-> platform, external_id |-> external_id,
                  parent_resource_id |-> parent_resource_id,
                  display_name |-> display_name,
                  mailbox_address |-> mailbox, metadata |-> metadata])
        ELSE LET ch == table[id]
             IN  Put(table, id,
                     [ch EXCEPT
                        !.parent_resource_id =
                            IF Truthy(parent_resource_id)
                            THEN parent_resource_id ELSE @,
                        !.display_name =
                            IF Truthy(display_name) /\ ~Truthy(@)
                            THEN display_name ELSE @,
                        !.mailbox_address =
                            IF Truthy(mailbox) THEN mailbox ELSE @,
                        !.metadata =
                            IF metadata # EmptyDict
                            THEN Update(@, metadata) ELSE @])

\* _ensure_user: the table after the call, the row's id (NONE without a
\* native id) and whether the call committed the session
EnsureUser(table, workspace_id, platform, native_id, display_name, email) ==
    LET id == Key3(workspace_id, platform, native_id)
    IN  IF ~Truthy(native_id)
        THEN [users |-> table, id |-> NONE, committed |-> FALSE]
        ELSE IF id \notin DOMAIN table
        THEN [users |->
                 Put(table, id,
                     [id |-> id, workspace_id |-> workspace_id,
                      platform |-> platform, platform_user_id |-> native_id,
                      display_name |-> Or(display_name, native_id),
                      email |-> email]),
              id |-> id, committed |-> TRUE]
        ELSE LET user == table[id]
                 newName == Truthy(display_name)
                               /\ user.display_name # display_name
                 newEmail == Truthy(email) /\ user.email # email
             IN  [users |->
                     Put(table, id,
                         [user EXCEPT
                            !.display_name = IF newName THEN display_name ELSE @,
                            !.email = IF newEmail THEN email ELSE @]),
                  id |-> id, committed |-> newName \/ newEmail]

\* _ensure_thread
EnsureThread(table, workspace_id, channel_id, platform, source_thread_id, parent_resource_id, thread_url) ==
    LET id == Key3(workspace_id, platform, source_thread_id)
    IN  IF id \notin DOMAIN table
        THEN Put(table, id,
                 [id |-> id, workspace_id |-> workspace_id,
                  channel_id |-> channel_id, platform |-> platform,
                  source_thread_id |-> source_thread_id,
                  source_parent_id |-> parent_resource_id,
                  source_url |-> thread_url])
        ELSE LET th == table[id]
             IN  Put(table, id,
                     [th EXCEPT
                        !.source_url =
                            IF Truthy(thread_url) /\ @ # thread_url
                            THEN thread_url ELSE @,
                        !.source_parent_id =
                            IF Truthy(parent_resource_id)
                               /\ @ # parent_resource_id
                            THEN parent_resource_id ELSE @])

\* What each _ingest_<platform> derives from the thread reference and the
\* fetch before its loop: the workspace key, the channel and the thread
IngestTarget(platform, ref, payloads) ==
    CASE platform = "slack" ->
            [workspace_key |-> ref.team_id,
             external_id |-> ref.channel_id,
             channel_parent |-> ref.team_id,
             mailbox |-> NONE,
             channel_metadata |-> [team_id |-> ref.team_id],
             source_thread_id |-> ref.thread_ts,
             thread_parent |-> ref.channel_id,
             thread_url |-> "https://app.slack.com/client/" \o ref.team_id
                               \o "/" \o ref.channel_id \o "/"
                               \o Replace(ref.thread_ts, ".", "p")]
      [] platform = "msteams" ->
            [workspace_key |-> Or(ref.tenant_id, ref.team_id),
             external_id |-> ref.channel_id,
             channel_parent |-> ref.team_id,
             mailbox |-> NONE,
             channel_metadata |-> [team_id |-> ref.team_id,
                                   conversation_type |-> "channel"],
             source_thread_id |-> ref.message_id,
             thread_parent |-> ref.channel_id,
             thread_url |-> payloads[1].webUrl]
      [] OTHER ->
            [workspace_key |-> Or(ref.tenant_id, ref.mailbox),
             external_id |-> ref.mailbox,
             channel_parent |-> Or(ref.tenant_id, ref.mailbox),
             mailbox |-> ref.mailbox,
             channel_metadata |-> EmptyDict,
             source_thread_id |-> ref.conversation_id,
             thread_parent |-> ref.mailbox,
             thread_url |-> IF payloads # <<>> /\ payloads[1].webLink # NONE
                            THEN payloads[1].webLink ELSE ""]

\* {r["name"]: r.get("count", 0) for r in payload.get("reactions", [])}
RECURSIVE SlackReactions(_)
SlackReactions(list) ==
    IF list = <<>> THEN [x \in {} |-> 0]
    ELSE LET last == list[Len(list)]
         IN  Put(SlackReactions(SubSeq(list, 1, Len(list) - 1)),
                 last.name, last.count)

\* reactions[key] = reactions.get(key, 0) + 1 for each Teams reaction
RECURSIVE TeamsReactions(_)
TeamsReactions(list) ==
    IF list = <<>> THEN [x \in {} |-> 0]
    ELSE LET rest == TeamsReactions(SubSeq(list, 1, Len(list) - 1))
             key  == list[Len(list)]
         IN  Put(rest, key, GetOr(rest, key, 0) + 1)

\* The author of a fetched message: native user id, display name, email.
\* For Slack, info is the answer of users_info, asked for ids starting "U".
AuthorOf(platform, payload, info) ==
    CASE platform = "slack" ->
            LET user_id == Or(payload.user, payload.bot_id)
                asked == Truthy(user_id) /\ StartsWith(user_id, "U") /\ info.ok
            IN  [native_id |-> user_id,
                 display_name |->
                    IF asked
                    THEN Or(info.display_name, Or(info.real_name, user_id))
                    ELSE user_id,
                 email |-> IF asked THEN info.email ELSE NONE]
      [] platform = "msteams" ->
            [native_id |-> payload.user_id,
             display_name |-> Or(payload.displayName, payload.user_id),
             email |-> payload.email]
      [] OTHER ->
            [native_id |-> Or(payload.address, payload.name),
             display_name |-> Or(payload.name, Or(payload.address, payload.name)),
             email |-> payload.address]

\* The arguments each _ingest_<platform> passes to _persist_message
PersistArgs(platform, ref, payload, previous_id) ==
    CASE platform = "slack" ->
            [native_id |-> payload.ts,
             parent_id |->
                IF Truthy(payload.thread_ts) /\ payload.thread_ts # payload.ts
                THEN payload.thread_ts ELSE NONE,
             text |-> Or(payload.text, ""),
             created_at |-> TsNumber(payload.ts),
             reactions |-> SlackReactions(payload.reactions),
             metadata |->
                [team_id |-> ref.team_id, channel_id |-> ref.channel_id,
                 permalink |-> "https://app.slack.com/client/" \o ref.team_id
                                  \o "/" \o ref.channel_id \o "/"
                                  \o Replace(payload.ts, ".", "p"),
                 thread_ts |-> payload.thread_ts]]
      [] platform = "msteams" ->
            [native_id |-> payload.id,
             parent_id |->
                IF ~Truthy(payload.replyToId) /\ payload.id # ref.message_id
                THEN ref.message_id ELSE payload.replyToId,
             text |-> html_to_text(payload.content),
             created_at |-> payload.created,
             reactions |-> TeamsReactions(payload.reactions),
             metadata |->
                [webUrl |-> payload.webUrl,
                 raw_html |-> IF payload.content = NONE THEN "" ELSE payload.content]]
      [] OTHER ->
            [native_id |-> payload.id,
             parent_id |-> Or(payload.replyToId, previous_id),
             text |-> html_to_text(payload.content),
             created_at |-> payload.created,
             reactions |-> [x \in {} |-> 0],
             metadata |->
                [webLink |-> payload.webLink,
                 raw_html |-> IF payload.content = NONE THEN "" ELSE payload.content]]

\* _persist_message without `metadata.setdefault("canonical_id", canonical)`
PersistMetadataAsGiven(platform, native_id, metadata) == metadata

\* metadata.setdefault("canonical_id", canonical)
PersistMetadata(platform, native_id, metadata) ==
    SetDefault(metadata, "canonical_id", CanonicalOf(platform, native_id))

\* The update branch of _persist_message without `msg.text = text`
UpdatedMessageKeepsText(msg, platform, args, user_id) ==
    [msg EXCEPT
        !.text_hash = Sha1(args.text),
        !.parent_msg_id = args.parent_id,
        !.author_user_id = user_id,
        !.reactions_json = args.reactions,
        !.metadata_json = PersistMetadata(platform, args.native_id, args.metadata),
        !.created_at = args.created_at]

\* The update branch of _persist_message: `if msg:`
UpdatedMessage(msg, platform, args, user_id) ==
    [msg EXCEPT
        !.text = args.text,
        !.text_hash = Sha1(args.text),
        !.parent_msg_id = args.parent_id,
        !.author_user_id = user_id,
        !.reactions_json = args.reactions,
        !.metadata_json = PersistMetadata(platform, args.native_id, args.metadata),
        !.created_at = args.created_at]

\* The insert branch of _persist_message: `Message(...)`
NewMessage(thread_id, platform, args, user_id) ==
    [thread_id |-> thread_id,
     platform |-> platform,
     source_msg_id |-> args.native_id,
     parent_msg_id |-> args.parent_id,
     author_user_id |-> user_id,
     text |-> args.text,
     text_hash |-> Sha1(args.text),
     reactions_json |-> args.reactions,
     metadata_json |-> PersistMetadata(platform, args.native_id, args.metadata),
     created_at |-> args.created_at]

\* UniqueConstraint("thread_id", "source_msg_id")
MessageKey(msg) == <<msg.thread_id, msg.source_msg_id>>

\* Whether a flush of the pending Messages satisfies the constraint
FlushAccepted(new, messages) ==
    /\ \A k \in 1..Len(new) : MessageKey(new[k]) \notin DOMAIN messages
    /\ \A j, k \in 1..Len(new) :
          j # k => MessageKey(new[j]) # MessageKey(new[k])

\* The messages table after a commit that is accepted
Committed(new, dirty, messages) ==
    [key \in (DOMAIN messages) \cup {MessageKey(new[k]) : k \in 1..Len(new)} |->
        IF key \in DOMAIN dirty THEN dirty[key]
        ELSE IF key \in DOMAIN messages THEN messages[key]
        ELSE new[CHOOSE k \in 1..Len(new) : MessageKey(new[k]) = key]]

\* _normalize_text
normalize_text(platform, text) ==
    LET unescaped == Replace(Replace(Replace(Or(text, ""), "&lt;", "<"),
                                     "&gt;", ">"), "&amp;", "&")
    IN  Strip(IF platform \in {"msteams", "outlook"}
              THEN Replace(unescaped, "\r", "") ELSE unescaped)

\* The loop body of preprocess_thread, on one Message
PreprocessedMessage(msg) ==
    [msg EXCEPT
        !.text = normalize_text(msg.platform, msg.text),
        !.metadata_json =
            Put(Put(@, "canonical_id",
                    Or(Get(@, "canonical_id"),
                       CanonicalOf(msg.platform, msg.source_msg_id))),
                "source_msg_id", msg.source_msg_id)]

\* A new Session, and the Session after close()
SessionEmpty == sess_new = <<>> /\ sess_dirty = EmptyDict

IngInit ==
    /\ ing_platform \in CalledPlatforms
    /\ ing_thread_ref = ThreadRefOf(ing_platform)
    /\ db_workspaces = EmptyDict /\ db_channels = EmptyDict
    /\ db_users = EmptyDict /\ db_threads = EmptyDict
    /\ db_messages = EmptyDict
    /\ SessionEmpty
    /\ ing_client = FALSE /\ ing_payloads = <<>> /\ ing_i = 0
    /\ ing_thread = NONE /\ ing_previous_id = NONE
    /\ ing_updated = {} /\ ing_user_cache = {}
    /\ ing_before = EmptyDict
    /\ ing_pc = "idle"

\* ingest_thread is not running and nothing is stored
IngIdle == IngInit /\ ing_platform = "slack"

\* ingest_thread that goes on to the platform's ingestion without looking at
\* the client
CallIngestUnchecked ==
    /\ ing_pc = "idle"
    /\ \E client \in BOOLEAN :
          /\ ing_client' = client
          /\ ing_pc' = IF ing_platform \in Platforms THEN "ensure" ELSE "failed"
    /\ ing_payloads' = <<>> /\ ing_i' = 0 /\ ing_thread' = NONE
    /\ ing_previous_id' = NONE /\ ing_updated' = {} /\ ing_user_cache' = {}
    /\ ing_before' = db_messages
    /\ UNCHANGED <<dbVars, sessVars, ing_platform, ing_thread_ref>>

\* A Session is opened and ingest_thread called, which raises without the
\* platform's client and for a platform it does not know
CallIngest ==
    /\ ing_pc = "idle"
    /\ \E client \in BOOLEAN :
          /\ ing_client' = client
          /\ ing_pc' = IF client /\ ing_platform \in Platforms THEN "ensure"
                       ELSE "failed"
    /\ ing_payloads' = <<>> /\ ing_i' = 0 /\ ing_thread' = NONE
    /\ ing_previous_id' = NONE /\ ing_updated' = {} /\ ing_user_cache' = {}
    /\ ing_before' = db_messages
    /\ UNCHANGED <<dbVars, sessVars, ing_platform, ing_thread_ref>>

IngestCall == CallIngest /\ UNCHANGED otherThanIngest

\* _ingest_<platform> up to its loop: workspace, channel, the fetch, thread
IngestEnsure ==
    /\ ing_pc = "ensure"
    /\ \E payloads \in FetchResults(ing_platform) :
          LET t == IngestTarget(ing_platform, ing_thread_ref, payloads)
              ws == WorkspaceId(ing_platform, t.workspace_key)
              ch == Key3(ws, ing_platform, t.external_id)
          IN  /\ ing_payloads' = payloads
              /\ db_workspaces' =
                    EnsureWorkspace(db_workspaces, ing_platform, t.workspace_key)
              /\ db_channels' =
                    EnsureChannel(db_channels, ws, ing_platform, t.external_id,
                                  t.channel_parent, NONE, t.mailbox,
                                  t.channel_metadata)
              /\ db_threads' =
                    EnsureThread(db_threads, ws, ch, ing_platform,
                                 t.source_thread_id, t.thread_parent,
                                 t.thread_url)
              /\ ing_thread' = Key3(ws, ing_platform, t.source_thread_id)
    /\ ing_i' = 1
    /\ ing_pc' = "loop"
    /\ UNCHANGED <<db_users, db_messages, sessVars, ing_platform,
                   ing_thread_ref, ing_client, ing_previous_id, ing_updated,
                   ing_before, ing_user_cache>>
    /\ UNCHANGED otherThanIngest

\* One iteration of the loop of _ingest_<platform>: _ensure_user, which may
\* commit the Session, then _persist_message
IngestMessage ==
    /\ ing_pc = "loop"
    /\ ing_i <= Len(ing_payloads)
    /\ LET payload == ing_payloads[ing_i]
           ws == db_threads[ing_thread].workspace_id
           slackUser == IF ing_platform = "slack"
                        THEN Or(payload.user, payload.bot_id) ELSE NONE
           cached == ing_platform = "slack" /\ slackUser \in ing_user_cache
           asks == ing_platform = "slack" /\ ~cached /\ Truthy(slackUser)
                      /\ StartsWith(slackUser, "U")
       IN  \E info \in IF asks THEN SlackProfiles
                       ELSE {p \in SlackProfiles : ~p.ok} :
              LET author == AuthorOf(ing_platform, payload, info)
                  eu == IF cached
                        THEN [users |-> db_users, committed |-> FALSE,
                              id |-> Key3(ws, "slack", slackUser)]
                        ELSE EnsureUser(db_users, ws, ing_platform,
                                        author.native_id, author.display_name,
                                        author.email)
                  accepted == FlushAccepted(sess_new, db_messages)
                  messages == IF eu.committed
                              THEN Committed(sess_new, sess_dirty, db_messages)
                              ELSE db_messages
                  new == IF eu.committed THEN <<>> ELSE sess_new
                  dirty == IF eu.committed THEN EmptyDict ELSE sess_dirty
                  args == PersistArgs(ing_platform, ing_thread_ref, payload,
                                      ing_previous_id)
                  key == <<ing_thread, args.native_id>>
              IN  IF eu.committed /\ ~accepted
                  THEN /\ ing_pc' = "failed"
                       /\ UNCHANGED <<dbVars, sessVars, ing_i, ing_previous_id,
                                      ing_updated, ing_user_cache>>
                  ELSE /\ db_users' = eu.users
                       /\ db_messages' = messages
                       /\ IF key \in DOMAIN messages
                          THEN /\ sess_dirty' =
                                     Put(dirty, key,
                                         UpdatedMessage(
                                             IF key \in DOMAIN dirty
                                             THEN dirty[key] ELSE messages[key],
                                             ing_platform, args, eu.id))
                               /\ sess_new' = new
                               /\ ing_updated' = ing_updated \cup {args.native_id}
                          ELSE /\ sess_new' =
                                     Append(new, NewMessage(ing_thread,
                                                ing_platform, args, eu.id))
                               /\ sess_dirty' = dirty
                               /\ ing_updated' = ing_updated
                       /\ ing_user_cache' =
                             IF ing_platform = "slack" /\ eu.id # NONE
                             THEN ing_user_cache \cup {slackUser}
                             ELSE ing_user_cache
                       /\ ing_previous_id' =
                             IF ing_platform = "outlook"
                             THEN args.native_id ELSE ing_previous_id
                       /\ ing_i' = ing_i + 1
                       /\ ing_pc' = "loop"
                       /\ UNCHANGED <<db_workspaces, db_channels, db_threads>>
    /\ UNCHANGED <<ing_platform, ing_thread_ref, ing_client, ing_payloads,
                   ing_thread, ing_before>>
    /\ UNCHANGED otherThanIngest

\* The run is cancelled, or a statement of the loop raises (a timestamp
\* _parse_dt cannot read, a payload without its id), between two iterations:
\* the loop is left with what it added still pending in the Session
IngestCancel ==
    /\ ing_pc = "loop"
    /\ ing_pc' = "cancelled"
    /\ UNCHANGED <<dbVars, sessVars, ing_platform, ing_thread_ref, ing_client,
                   ing_payloads, ing_i, ing_thread, ing_previous_id,
                   ing_updated, ing_before, ing_user_cache>>
    /\ UNCHANGED otherThanIngest

\* The db.commit() that ends _ingest_<platform>; a flush the unique
\* constraint rejects raises and nothing of it is stored
IngestCommit ==
    /\ ing_pc = "loop"
    /\ ing_i > Len(ing_payloads)
    /\ IF FlushAccepted(sess_new, db_messages)
       THEN /\ db_messages' = Committed(sess_new, sess_dirty, db_messages)
            /\ sess_new' = <<>>
            /\ sess_dirty' = EmptyDict
            /\ ing_pc' = "done"
       ELSE /\ ing_pc' = "failed"
            /\ UNCHANGED <<db_messages, sessVars>>
    /\ UNCHANGED <<db_workspaces, db_channels, db_users, db_threads,
                   ing_platform, ing_thread_ref, ing_client, ing_payloads,
                   ing_i, ing_thread, ing_previous_id, ing_updated,
                   ing_before, ing_user_cache>>
    /\ UNCHANGED otherThanIngest

\* preprocess_thread, which _process_condense calls on the ingested thread.
\* The metadata it writes is the dict it read, changed in place: whether the
\* ORM sees a change to store is open, the text is stored either way.
PreprocessThread ==
    /\ ing_pc = "done"
    /\ \E stored \in BOOLEAN :
          db_messages' =
             [key \in DOMAIN db_messages |->
                 IF key[1] = ing_thread
                 THEN IF stored
                      THEN PreprocessedMessage(db_messages[key])
                      ELSE [db_messages[key] EXCEPT
                               !.text = PreprocessedMessage(db_messages[key]).text]
                 ELSE db_messages[key]]
    /\ ing_pc' = "preprocessed"
    /\ UNCHANGED <<db_workspaces, db_channels, db_users, db_threads, sessVars,
                   ing_platform, ing_thread_ref, ing_client, ing_payloads,
                   ing_i, ing_thread, ing_previous_id, ing_updated,
                   ing_before, ing_user_cache>>
    /\ UNCHANGED otherThanIngest

\* The `finally: db.close()` of _process_condense: what is pending is gone,
\* and so are the locals of the run
IngestReturn ==
    /\ ing_pc \in {"done", "preprocessed", "published", "failed", "cancelled"}
    /\ sess_new' = <<>>
    /\ sess_dirty' = EmptyDict
    /\ ing_pc' = "idle"
    /\ ing_before' = EmptyDict
    /\ ing_client' = FALSE /\ ing_payloads' = <<>> /\ ing_i' = 0
    /\ ing_thread' = NONE /\ ing_previous_id' = NONE
    /\ ing_updated' = {} /\ ing_user_cache' = {}
    /\ UNCHANGED <<dbVars, ing_platform, ing_thread_ref>>
    /\ UNCHANGED otherThanIngest

IngNext ==
    \/ IngestCall
    \/ IngestEnsure
    \/ IngestMessage
    \/ IngestCommit
    \/ IngestCancel
    \/ PreprocessThread
    \/ IngestReturn

----------------------------------------------------------------------------
(* The condense run: app/workers/tasks.py, app/pipeline/extract.py,        *)
(* app/pipeline/brief.py.  The stages after preprocess_thread.             *)

\* Bound of the condense runs: how many are started on one store
MaxRuns == 1

\* segment_messages(messages, max_tokens=2000, ...)
SegmentBudget == 2000

\* settings.PROMOTION_THRESHOLD, in hundredths
PROMOTION_THRESHOLD == 65

\* options.get("run_id") or f"rc-{uuid.uuid4()}"
RunIds == {"rc-given", "rc-uuid"}

\* .order_by(Message.created_at.asc())
RECURSIVE OrderByCreated(_)
OrderByCreated(rows) ==
    IF rows = {} THEN <<>>
    ELSE LET first == CHOOSE r \in rows :
                         \A q \in rows : r.created_at <= q.created_at
         IN  <<first>> \o OrderByCreated(rows \ {first})

\* The Messages of a thread as preprocess_thread returns them
ThreadMessages(messages, thread_id) ==
    OrderByCreated({messages[key] : key \in {k \in DOMAIN messages :
                                                k[1] = thread_id}})

\* segment_messages as a whole: the loop, then `if buf:`
RECURSIVE SegmentLoop(_, _, _)
SegmentLoop(messages, max_tokens, st) ==
    IF messages = <<>> THEN st
    ELSE LET line == RenderLine(Head(messages))
             count == count_tokens(line)
         IN  SegmentLoop(Tail(messages), max_tokens,
                IF ClosesChunk(st.tokens, count, max_tokens, st.buf)
                THEN [segments |-> Append(st.segments, Join(st.buf)),
                      buf |-> FreshBuf(line), tokens |-> count]
                ELSE [segments |-> st.segments,
                      buf |-> Append(st.buf, line),
                      tokens |-> st.tokens + count])

segment_messages(messages, max_tokens) ==
    LET st == SegmentLoop(messages, max_tokens,
                          [segments |-> <<>>, buf |-> <<>>, tokens |-> 0])
    IN  IF st.buf # <<>> THEN Append(st.segments, Join(st.buf))
        ELSE st.segments

\* _build_reaction_index: canonical id -> sum of the reaction counts
RECURSIVE SumValues(_)
SumValues(d) ==
    IF DOMAIN d = {} THEN 0
    ELSE LET k == CHOOSE k \in DOMAIN d : TRUE
         IN  d[k] + SumValues([j \in (DOMAIN d) \ {k} |-> d[j]])

RECURSIVE build_reaction_index(_)
build_reaction_index(messages) ==
    IF messages = <<>> THEN [x \in {} |-> 0]
    ELSE LET msg == messages[Len(messages)]
             rest == build_reaction_index(SubSeq(messages, 1, Len(messages) - 1))
             canonical == Get(msg.metadata_json, "canonical_id")
         IN  IF ~Truthy(canonical) THEN rest
             ELSE Put(rest, canonical, SumValues(msg.reactions_json))

\* What llm.complete_json may answer about a thread of the platform: JSON
\* that fits the schema or not, with references to a stored message, to an
\* id no message has, and with platform or msg_id left empty
RawOutputs(platform) ==
    LET known == SupportRef(platform, "1", CanonicalOf(platform, "1"), NONE)
        bare == SupportRef("", "2", "", NONE)
        unknown == SupportRef(platform, "9", CanonicalOf(platform, "9"),
                              "https://llm/guess")
        empty == [attr \in {Attrs[k] : k \in 1..Len(Attrs)} |-> <<>>]
    IN  { [valid |-> TRUE, lists |-> empty],
          [valid |-> FALSE, lists |-> empty],
          [valid |-> TRUE,
           lists |-> [empty EXCEPT
                        !["decisions"] = <<RankItem(1, 90, <<known, unknown>>),
                                           RankItem(2, 30, <<known>>)>>]],
          [valid |-> TRUE,
           lists |-> [empty EXCEPT
                        !["decisions"] = <<RankItem(1, 90, <<known>>),
                                           RankItem(2, 30, <<unknown>>)>>]],
          [valid |-> TRUE,
           lists |-> [empty EXCEPT
                        !["risks"] = <<RankItem(1, 60, <<bare>>)>>,
                        !["actions"] = <<RankItem(2, 70, <<unknown>>)>>]] }

\* The references of a result, over its four sections
RefsOf(result) ==
    UNION { UNION { {result[Attrs[a]][i].supporting_msgs[r] :
                        r \in 1..Len(result[Attrs[a]][i].supporting_msgs)} :
                    i \in 1..Len(result[Attrs[a]]) } :
            a \in 1..Len(Attrs) }

\* extract_items after the answer: `if not ref.platform`, `if not ref.msg_id`
FillRef(ref, platform) ==
    LET filled == IF ~Truthy(ref.platform)
                  THEN [ref EXCEPT !.platform = platform] ELSE ref
    IN  IF ~Truthy(filled.msg_id)
        THEN [filled EXCEPT
                 !.msg_id = CanonicalOf(filled.platform, filled.native_id)]
        ELSE filled

\* extract_items with message_ids taken from the references as the answer
\* wrote them
extract_items_ids_as_written(platform, thread_url, thread_ref, raw, run_id) ==
    LET sections ==
            [attr \in {Attrs[k] : k \in 1..Len(Attrs)} |->
                [i \in 1..Len(raw.lists[attr]) |->
                    [raw.lists[attr][i] EXCEPT !.supporting_msgs =
                        [r \in 1..Len(@) |-> FillRef(@[r], platform)]]]]
    IN  [platform |-> platform,
         decisions |-> sections["decisions"],
         risks |-> sections["risks"],
         actions |-> sections["actions"],
         open_questions |-> sections["open_questions"],
         people_map |-> EmptyDict,
         provenance |->
            [thread_url |-> thread_url,
             run_id |-> run_id,
             source_platform |-> platform,
             source_thread_ref |-> thread_ref,
             message_ids |->
                {ref.msg_id : ref \in {q \in RefsOf(raw.lists) : Truthy(q.msg_id)}}]]

\* extract_items from the answer on: the defaults, the provenance fields, the
\* filled references and the recomputed message_ids (kept as a set)
extract_items(platform, thread_url, thread_ref, raw, run_id) ==
    LET sections ==
            [attr \in {Attrs[k] : k \in 1..Len(Attrs)} |->
                [i \in 1..Len(raw.lists[attr]) |->
                    [raw.lists[attr][i] EXCEPT !.supporting_msgs =
                        [r \in 1..Len(@) |-> FillRef(@[r], platform)]]]]
    IN  [platform |-> platform,
         decisions |-> sections["decisions"],
         risks |-> sections["risks"],
         actions |-> sections["actions"],
         open_questions |-> sections["open_questions"],
         people_map |-> EmptyDict,
         provenance |->
            [thread_url |-> thread_url,
             run_id |-> run_id,
             source_platform |-> platform,
             source_thread_ref |-> thread_ref,
             message_ids |->
                {ref.msg_id : ref \in {q \in RefsOf(sections) : Truthy(q.msg_id)}}]]

\* `raw` before llm.complete_json has answered
NoAnswer == [valid |-> TRUE, lists |-> EmptyDict]

\* No run is under way and no brief is saved
CondIdle ==
    /\ db_briefs = EmptyDict
    /\ cond_runs = 0
    /\ cond_run_id = NONE
    /\ cond_messages = <<>>
    /\ cond_segments = <<>>
    /\ cond_brief = EmptyDict
    /\ cond_published = EmptyDict
    /\ cond_completions = 0
    /\ cond_raw = NoAnswer
    /\ cond_briefs_before = EmptyDict

\* _process_condense up to the call of ingest_thread
CondenseStart ==
    /\ cond_runs < MaxRuns
    /\ CallIngest
    /\ cond_runs' = cond_runs + 1
    /\ cond_run_id' \in RunIds
    /\ cond_messages' = <<>>
    /\ cond_segments' = <<>>
    /\ cond_brief' = EmptyDict
    /\ cond_published' = EmptyDict
    /\ cond_completions' = 0
    /\ cond_raw' = NoAnswer
    /\ cond_briefs_before' = db_briefs
    /\ UNCHANGED db_briefs
    /\ UNCHANGED otherThanCondense

\* segments = segment_messages(messages, max_tokens=2000, ...)
CondenseSegment ==
    /\ ing_pc = "preprocessed"
    /\ cond_runs > 0
    /\ cond_messages' = ThreadMessages(db_messages, ing_thread)
    /\ cond_segments' = segment_messages(cond_messages', SegmentBudget)
    /\ ing_pc' = "segmented"
    /\ UNCHANGED <<db_briefs, cond_runs, cond_run_id, cond_briefs_before,
                   cond_completions, cond_raw, cond_brief,
                   cond_published>>
    /\ UNCHANGED <<dbVars, sessVars, ing_platform, ing_thread_ref, ing_client,
                   ing_payloads, ing_i, ing_thread, ing_previous_id,
                   ing_updated, ing_before, ing_user_cache>>
    /\ UNCHANGED otherThanCondense

\* extract_items that goes on with the defaults when the answer does not fit
CondenseExtractLenient ==
    /\ ing_pc = "segmented"
    /\ cond_completions' = cond_completions + 1
    /\ \E raw \in RawOutputs(ing_platform) :
          /\ cond_raw' = raw
          /\ cond_brief' =
                extract_items(ing_platform, db_threads[ing_thread].source_url,
                              ing_thread_ref, raw, cond_run_id)
          /\ ing_pc' = "extracted"
    /\ UNCHANGED <<db_briefs, cond_runs, cond_run_id, cond_briefs_before,
                   cond_messages, cond_segments, cond_published>>
    /\ UNCHANGED <<dbVars, sessVars, ing_platform, ing_thread_ref, ing_client,
                   ing_payloads, ing_i, ing_thread, ing_previous_id,
                   ing_updated, ing_before, ing_user_cache>>
    /\ UNCHANGED otherThanCondense

\* brief = await extract_items(...): one call of llm.complete_json; an answer
\* that does not fit the schema makes model_validate raise
CondenseExtract ==
    /\ ing_pc = "segmented"
    /\ cond_completions' = cond_completions + 1
    /\ \E raw \in RawOutputs(ing_platform) :
          /\ cond_raw' = raw
          /\ IF raw.valid
             THEN /\ cond_brief' =
                        extract_items(ing_platform,
                                      db_threads[ing_thread].source_url,
                                      ing_thread_ref, raw, cond_run_id)
                  /\ ing_pc' = "extracted"
             ELSE /\ ing_pc' = "failed"
                  /\ UNCHANGED cond_brief
    /\ UNCHANGED <<db_briefs, cond_runs, cond_run_id, cond_briefs_before,
                   cond_messages, cond_segments, cond_published>>
    /\ UNCHANGED <<dbVars, sessVars, ing_platform, ing_thread_ref, ing_client,
                   ing_payloads, ing_i, ing_thread, ing_previous_id,
                   ing_updated, ing_before, ing_user_cache>>
    /\ UNCHANGED otherThanCondense

\* reactions_index = _build_reaction_index(messages);
\* ranked = rank_and_filter(brief, reactions_index, PROMOTION_THRESHOLD)
CondenseRank ==
    /\ ing_pc = "extracted"
    /\ cond_brief' = rank_and_filter(cond_brief,
                                     build_reaction_index(cond_messages),
                                     PROMOTION_THRESHOLD)
    /\ ing_pc' = "ranked"
    /\ UNCHANGED <<db_briefs, cond_runs, cond_run_id, cond_briefs_before,
                   cond_completions, cond_raw, cond_messages,
                   cond_segments, cond_published>>
    /\ UNCHANGED <<dbVars, sessVars, ing_platform, ing_thread_ref, ing_client,
                   ing_payloads, ing_i, ing_thread, ing_previous_id,
                   ing_updated, ing_before, ing_user_cache>>
    /\ UNCHANGED otherThanCondense

\* ranked = attach_links(messages, ranked)
CondenseLink ==
    /\ ing_pc = "ranked"
    /\ cond_brief' = attach_links(cond_messages, cond_brief)
    /\ ing_pc' = "linked"
    /\ UNCHANGED <<db_briefs, cond_runs, cond_run_id, cond_briefs_before,
                   cond_completions, cond_raw, cond_messages,
                   cond_segments, cond_published>>
    /\ UNCHANGED <<dbVars, sessVars, ing_platform, ing_thread_ref, ing_client,
                   ing_payloads, ing_i, ing_thread, ing_previous_id,
                   ing_updated, ing_before, ing_user_cache>>
    /\ UNCHANGED otherThanCondense

\* save_brief(db, run_id, thread.id, ranked): db.merge(record); db.commit()
CondenseSave ==
    /\ ing_pc = "linked"
    /\ db_briefs' = Put(db_briefs, cond_run_id,
                        [run_id |-> cond_run_id, thread_id |-> ing_thread,
                         platform |-> cond_brief.platform,
                         json_blob |-> cond_brief])
    /\ ing_pc' = "saved"
    /\ UNCHANGED <<cond_runs, cond_run_id, cond_briefs_before,
                   cond_completions, cond_raw, cond_messages, cond_segments,
                   cond_brief, cond_published>>
    /\ UNCHANGED <<dbVars, sessVars, ing_platform, ing_thread_ref, ing_client,
                   ing_payloads, ing_i, ing_thread, ing_previous_id,
                   ing_updated, ing_before, ing_user_cache>>
    /\ UNCHANGED otherThanCondense

\* await adapter.publish_brief(context, ranked)
CondensePublish ==
    /\ ing_pc = "saved"
    /\ cond_published' = cond_brief
    /\ ing_pc' = "published"
    /\ UNCHANGED <<db_briefs, cond_runs, cond_run_id, cond_briefs_before,
                   cond_completions, cond_raw, cond_messages,
                   cond_segments, cond_brief>>
    /\ UNCHANGED <<dbVars, sessVars, ing_platform, ing_thread_ref, ing_client,
                   ing_payloads, ing_i, ing_thread, ing_previous_id,
                   ing_updated, ing_before, ing_user_cache>>
    /\ UNCHANGED otherThanCondense

CondNext ==
    \/ CondenseStart
    \/ IngestEnsure
    \/ IngestMessage
    \/ IngestCommit
    \/ IngestCancel
    \/ PreprocessThread
    \/ CondenseSegment
    \/ CondenseExtract
    \/ CondenseRank
    \/ CondenseLink
    \/ CondenseSave
    \/ CondensePublish
    \/ IngestReturn

----------------------------------------------------------------------------
(* Graph change notifications: app/api/v1.py.                              *)

\* sub in s
Contains(s, sub) ==
    \E k \in 0..(Len(s) - Len(sub)) : SubSeq(s, k + 1, k + Len(sub)) = sub

\* s.endswith(suffix)
EndsWith(s, suffix) ==
    Len(s) >= Len(suffix)
       /\ SubSeq(s, Len(s) - Len(suffix) + 1, Len(s)) = suffix

\* s.strip("/")
RECURSIVE StripSlashes(_)
StripSlashes(s) ==
    IF s # "" /\ SubSeq(s, 1, 1) = "/" THEN StripSlashes(Drop(s, 1))
    ELSE IF s # "" /\ SubSeq(s, Len(s), Len(s)) = "/"
    THEN StripSlashes(SubSeq(s, 1, Len(s) - 1))
    ELSE s

\* The position of the first c in s, 0 when there is none
Find(s, c) ==
    IF \E k \in 1..Len(s) : SubSeq(s, k, k) = c
    THEN CHOOSE k \in 1..Len(s) :
            /\ SubSeq(s, k, k) = c
            /\ \A j \in 1..(k - 1) : SubSeq(s, j, j) # c
    ELSE 0

\* s.split("/")
RECURSIVE Split(_)
Split(s) ==
    IF Find(s, "/") = 0 THEN <<s>>
    ELSE <<SubSeq(s, 1, Find(s, "/") - 1)>> \o Split(Drop(s, Find(s, "/")))

\* [tok for tok in resource.strip("/").split("/") if tok]
Tokens(resource) == SelectSeq(Split(StripSlashes(resource)), LAMBDA tok : tok # "")

\* The characters of the codes 0x20 to 0x5F, and of 0x61 to 0x7E, in order
AsciiLow ==
    " !\"#$%&'()*+,-./0123456789:;<=>?@ABCDEFGHIJKLMNOPQRSTUVWXYZ[\\]^_"

AsciiHigh == "abcdefghijklmnopqrstuvwxyz{|}~"

\* The character of a code, "" for a code outside the two ranges
CharOf(code) ==
    IF code \in 32..95 THEN SubSeq(AsciiLow, code - 31, code - 31)
    ELSE IF code \in 97..126 THEN SubSeq(AsciiHigh, code - 96, code - 96)
    ELSE ""

HexDigits == "0123456789ABCDEF"

\* The value of a hexadecimal digit of either case, -1 for another character
HexValue(c) ==
    IF Find("0123456789ABCDEF", c) > 0 THEN Find("0123456789ABCDEF", c) - 1
    ELSE IF Find("abcdef", c) > 0 THEN Find("abcdef", c) + 9
    ELSE 0 - 1

\* The code of a character of the two ranges
CodeOf(c) ==
    IF Find(AsciiLow, c) > 0 THEN Find(AsciiLow, c) + 31
    ELSE Find(AsciiHigh, c) + 96

\* unquote that decodes nothing
UnquoteAsWritten(s) == s

\* urllib.parse.unquote, on the escapes of the codes of the two ranges: any
\* other escape stays as written
RECURSIVE Unquote(_)
Unquote(s) ==
    IF s = "" THEN ""
    ELSE IF SubSeq(s, 1, 1) = "%" /\ Len(s) >= 3
              /\ HexValue(SubSeq(s, 2, 2)) >= 0
              /\ HexValue(SubSeq(s, 3, 3)) >= 0
              /\ CharOf(16 * HexValue(SubSeq(s, 2, 2))
                           + HexValue(SubSeq(s, 3, 3))) # ""
    THEN CharOf(16 * HexValue(SubSeq(s, 2, 2)) + HexValue(SubSeq(s, 3, 3)))
            \o Unquote(Drop(s, 3))
    ELSE SubSeq(s, 1, 1) \o Unquote(Drop(s, 1))

\* The characters urllib.parse.quote leaves as they are, "/" apart
Unreserved ==
    "ABCDEFGHIJKLMNOPQRSTUVWXYZabcdefghijklmnopqrstuvwxyz0123456789_.-~"

\* Percent-encoding as the sender of a notification applies it to a key
RECURSIVE Quote(_)
Quote(s) ==
    IF s = "" THEN ""
    ELSE LET c == SubSeq(s, 1, 1)
         IN  (IF Find(Unreserved, c) > 0 THEN c
              ELSE "%" \o SubSeq(HexDigits, (CodeOf(c) \div 16) + 1,
                                 (CodeOf(c) \div 16) + 1)
                       \o SubSeq(HexDigits, (CodeOf(c) % 16) + 1,
                                 (CodeOf(c) % 16) + 1))
             \o Quote(Drop(s, 1))

_GRAPH_RESOURCE_ENTITIES ==
    {"beta", "channels", "chats", "mailFolders", "messages", "me", "replies",
     "teams", "users", "v1.0"}

\* parsed.setdefault(name, []).append(value)
AppendTo(parsed, name, value) ==
    Put(parsed, name,
        Append(IF name \in DOMAIN parsed THEN parsed[name] ELSE <<>>, value))

\* The loop of _parse_graph_resource from position idx on
RECURSIVE ParseTokens(_, _, _)
ParseTokens(tokens, idx, parsed) ==
    IF idx > Len(tokens) THEN parsed
    ELSE LET token == tokens[idx]
         IN  IF Contains(token, "(") /\ EndsWith(token, ")")
             THEN LET name == SubSeq(token, 1, Find(token, "(") - 1)
                      rest == Drop(token, Find(token, "("))
                      inner == SubSeq(rest, 1, Len(rest) - 1)
                      value == IF StartsWith(inner, "'") /\ EndsWith(inner, "'")
                               THEN SubSeq(inner, 2, Len(inner) - 1)
                               ELSE inner
                  IN  ParseTokens(tokens, idx + 1,
                                  AppendTo(parsed, name, Unquote(value)))
             ELSE IF idx + 1 <= Len(tokens)
                     /\ tokens[idx + 1] \notin _GRAPH_RESOURCE_ENTITIES
             THEN ParseTokens(tokens, idx + 2,
                              AppendTo(parsed, token, Unquote(tokens[idx + 1])))
             ELSE ParseTokens(tokens, idx + 1, AppendTo(parsed, token, ""))

\* _parse_graph_resource
parse_graph_resource(resource) ==
    ParseTokens(Tokens(resource), 1, [x \in {} |-> <<>>])

\* (parsed.get(name) or [None])[0]
FirstOf(parsed, name) ==
    IF name \in DOMAIN parsed /\ parsed[name] # <<>> THEN parsed[name][1]
    ELSE NONE

\* Bound of the notification inputs: the notifications of one payload
MaxNotes == 2

\* _base_thread_ref that lets the raw "id" through
BaseThreadRefKeepsId(resource_data) ==
    LET kept == [key \in (DOMAIN resource_data)
                            \ {"conversationId", "tenantId", "tenantID"} |->
                    resource_data[key]]
        conversation_id == Get(resource_data, "conversationId")
        withConv == IF Truthy(conversation_id)
                    THEN Put(kept, "conversation_id", conversation_id)
                    ELSE kept
        tenant_id == Or(Get(resource_data, "tenantId"),
                        Get(resource_data, "tenantID"))
    IN  IF Truthy(tenant_id) THEN Put(withConv, "tenant_id", tenant_id)
        ELSE withConv

\* _base_thread_ref
base_thread_ref(resource_data) ==
    LET kept == [key \in (DOMAIN resource_data)
                            \ {"id", "conversationId", "tenantId", "tenantID"} |->
                    resource_data[key]]
        conversation_id == Get(resource_data, "conversationId")
        withConv == IF Truthy(conversation_id)
                    THEN Put(kept, "conversation_id", conversation_id)
                    ELSE kept
        tenant_id == Or(Get(resource_data, "tenantId"),
                        Get(resource_data, "tenantID"))
    IN  IF Truthy(tenant_id) THEN Put(withConv, "tenant_id", tenant_id)
        ELSE withConv

\* What a builder returns: a thread reference, or None
NoRef == [ok |-> FALSE, ref |-> EmptyDict]

\* _build_teams_thread_ref with the event id ahead of the resource's message
build_teams_thread_ref_event_first(resource, resource_data) ==
    LET parsed == parse_graph_resource(resource)
        base == Put(base_thread_ref(resource_data), "resource", resource)
        channel_identity ==
            IF "channelIdentity" \in DOMAIN resource_data
            THEN resource_data["channelIdentity"] ELSE EmptyDict
        team_id == Or(Get(channel_identity, "teamId"),
                      Or(Get(resource_data, "teamId"), FirstOf(parsed, "teams")))
        channel_id == Or(Get(channel_identity, "channelId"),
                         Or(Get(resource_data, "channelId"),
                            FirstOf(parsed, "channels")))
        chat_id == Or(Get(resource_data, "chatId"), FirstOf(parsed, "chats"))
        conversation_type == IF Truthy(chat_id) THEN "chat" ELSE "channel"
        chat_or_conversation ==
            IF ~Truthy(chat_id) THEN Get(resource_data, "conversationId")
            ELSE chat_id
        placed == IF conversation_type = "chat"
                  THEN Put(base, "chat_id", chat_or_conversation)
                  ELSE Put(Put(base, "team_id", team_id), "channel_id", channel_id)
        typed == Put(placed, "conversation_type", conversation_type)
        event_message_id == Get(resource_data, "id")
        message_id == Or(Get(resource_data, "replyToId"),
                         Or(event_message_id, FirstOf(parsed, "messages")))
        withMessage == Put(typed, "message_id", message_id)
    IN  IF conversation_type = "chat" /\ ~Truthy(chat_or_conversation)
        THEN NoRef
        ELSE IF conversation_type = "channel"
           /\ (~Truthy(team_id) \/ ~Truthy(channel_id))
        THEN NoRef
        ELSE IF ~Truthy(message_id) THEN NoRef
        ELSE [ok |-> TRUE,
              ref |-> IF Truthy(event_message_id)
                         /\ event_message_id # message_id
                      THEN Put(withMessage, "event_message_id", event_message_id)
                      ELSE withMessage]

\* _build_teams_thread_ref
build_teams_thread_ref(resource, resource_data) ==
    LET parsed == parse_graph_resource(resource)
        base == Put(base_thread_ref(resource_data), "resource", resource)
        channel_identity ==
            IF "channelIdentity" \in DOMAIN resource_data
            THEN resource_data["channelIdentity"] ELSE EmptyDict
        team_id == Or(Get(channel_identity, "teamId"),
                      Or(Get(resource_data, "teamId"), FirstOf(parsed, "teams")))
        channel_id == Or(Get(channel_identity, "channelId"),
                         Or(Get(resource_data, "channelId"),
                            FirstOf(parsed, "channels")))
        chat_id == Or(Get(resource_data, "chatId"), FirstOf(parsed, "chats"))
        conversation_type == IF Truthy(chat_id) THEN "chat" ELSE "channel"
        chat_or_conversation ==
            IF ~Truthy(chat_id) THEN Get(resource_data, "conversationId")
            ELSE chat_id
        placed == IF conversation_type = "chat"
                  THEN Put(base, "chat_id", chat_or_conversation)
                  ELSE Put(Put(base, "team_id", team_id), "channel_id", channel_id)
        typed == Put(placed, "conversation_type", conversation_type)
        event_message_id == Get(resource_data, "id")
        message_id == Or(Get(resource_data, "replyToId"),
                         Or(FirstOf(parsed, "messages"), event_message_id))
        withMessage == Put(typed, "message_id", message_id)
    IN  IF conversation_type = "chat" /\ ~Truthy(chat_or_conversation)
        THEN NoRef
        ELSE IF conversation_type = "channel"
           /\ (~Truthy(team_id) \/ ~Truthy(channel_id))
        THEN NoRef
        ELSE IF ~Truthy(message_id) THEN NoRef
        ELSE [ok |-> TRUE,
              ref |-> IF Truthy(event_message_id)
                         /\ event_message_id # message_id
                      THEN Put(withMessage, "event_message_id", event_message_id)
                      ELSE withMessage]

\* _build_outlook_thread_ref
build_outlook_thread_ref(resource, resource_data) ==
    LET parsed == parse_graph_resource(resource)
        base == base_thread_ref(resource_data)
        conversation_id == Get(base, "conversation_id")
        message_id == Get(resource_data, "id")
        withMessage == IF Truthy(message_id)
                       THEN Put(base, "message_id", message_id) ELSE base
        mailbox == Or(Get(resource_data, "mailbox"),
                      Or(Get(resource_data, "userId"),
                         Or(Get(resource_data, "mailboxId"),
                            Or(FirstOf(parsed, "users"), FirstOf(parsed, "me")))))
    IN  IF ~Truthy(mailbox) \/ ~Truthy(conversation_id) THEN NoRef
        ELSE [ok |-> TRUE,
              ref |-> Put(Put(withMessage, "mailbox", mailbox),
                          "resource", resource)]

\* any(marker in resource for marker in ("/chats/", "/teams/", "chats(", "teams("))
IsTeamsResource(resource) ==
    \E marker \in {"/chats/", "/teams/", "chats(", "teams("} :
       Contains(resource, marker)

\* A Teams channel notification: resource /teams('T')/channels('C')/messages('M')
\* with C percent-encoded, resourceData with id, conversationId, tenantId and
\* channelIdentity
TeamsChannelNote(T, C, M, conversationId, tenantId) ==
    [resource |-> "/teams('" \o T \o "')/channels('" \o Quote(C)
                     \o "')/messages('" \o M \o "')",
     resourceData |->
        ("@odata.type" :> "#Microsoft.Graph.chatMessage")
           @@ ("id" :> M)
           @@ ("conversationId" :> conversationId)
           @@ ("tenantId" :> tenantId)
           @@ ("channelIdentity" :> [teamId |-> T, channelId |-> C])]

\* A mailbox notification: resource /users('U')/messages('M') with U
\* percent-encoded, resourceData with id, conversationId and tenantId
MailboxNote(U, M, conversationId, tenantId) ==
    [resource |-> "/users('" \o Quote(U) \o "')/messages('" \o M \o "')",
     resourceData |->
        ("@odata.type" :> "#Microsoft.Graph.Message")
           @@ ("id" :> M)
           @@ ("conversationId" :> conversationId)
           @@ ("tenantId" :> tenantId)]

\* The ids the notifications are made of
NoteTeams == {"team-123"}
NoteChannels == {"19:abc", "19:a b@thread.tacv2"}
NoteMailboxes == {"user@example.com", "o'neil+x@example.com"}
NoteChatMessages == {"169:root-msg", "1612289765949"}
NoteMailMessages == {"AAMkAGI2AAA="}
NoteConversations == {"19:conversation@thread.v2"}
NoteTenants == {"tenant-xyz"}

ChannelNotes ==
    { TeamsChannelNote(T, C, M, conv, tenant) :
         T \in NoteTeams, C \in NoteChannels, M \in NoteChatMessages,
         conv \in NoteConversations, tenant \in NoteTenants }

MailboxNotes ==
    { MailboxNote(U, M, conv, tenant) :
         U \in NoteMailboxes, M \in NoteMailMessages,
         conv \in NoteConversations, tenant \in NoteTenants }

\* Other notifications whose ids are all there: a chat message, a reply in a
\* channel addressed by bare path segments
ResolvableOtherNotes ==
    { [resource |-> "/chats('19:chat')/messages('5')",
       resourceData |-> ("id" :> "5") @@ ("tenantID" :> "tenant-xyz")],
      [resource |-> "teams/team-123/channels/19%3aabc/messages/5/replies/7",
       resourceData |-> ("id" :> "7") @@ ("replyToId" :> "5")] }

\* Notifications that lead to no run: a resource that is no message, a
\* mailbox message without conversationId, a team message without a channel,
\* a channel message without a message id, a message of the signed-in
\* user's inbox (no mailbox id anywhere)
UnresolvableNotes ==
    { [resource |-> "/teams('team-123')/channels('19%3Aabc')",
       resourceData |-> ("id" :> "19:abc")],
      [resource |-> "/users('user%40example.com')/messages('AAMkAGI2AAA=')",
       resourceData |-> ("id" :> "AAMkAGI2AAA=")],
      [resource |-> "/teams('team-123')/messages",
       resourceData |-> [x \in {} |-> ""]],
      [resource |-> "/teams('team-123')/channels('19%3Aabc')/messages",
       resourceData |-> ("tenantId" :> "tenant-xyz")],
      [resource |-> "/me/mailFolders('Inbox')/messages",
       resourceData |-> ("id" :> "AAMkAGI2AAA=")
                           @@ ("conversationId" :> "19:conversation@thread.v2")] }

OtherNotes == ResolvableOtherNotes \cup UnresolvableNotes

Notes == ChannelNotes \cup MailboxNotes \cup OtherNotes

\* A request comes in: a validation handshake or a list of notifications
NtfInit ==
    /\ ntf_token \in {NONE, "", "opaque-token"}
    /\ ntf_value \in SeqsUpTo(Notes, MaxNotes)
    /\ ntf_i = 1
    /\ ntf_calls = <<>>
    /\ ntf_response = NONE
    /\ ntf_pc = "handling"

\* graph_notifications is not running
NtfIdle ==
    /\ ntf_token = NONE
    /\ ntf_value = <<>>
    /\ ntf_i = 1
    /\ ntf_calls = <<>>
    /\ ntf_response = NONE
    /\ ntf_pc = "idle"

\* if payload.validationToken: return Response(content=...)
NotifyValidation ==
    /\ ntf_pc = "handling"
    /\ ntf_i = 1
    /\ Truthy(ntf_token)
    /\ ntf_response' = ntf_token
    /\ ntf_pc' = "done"
    /\ UNCHANGED <<ntf_token, ntf_value, ntf_i, ntf_calls>>
    /\ UNCHANGED otherThanNotify

\* One iteration of `for notification in payload.value`:
\* trigger_condense(platform, thread_ref, None) unless the notification is
\* skipped
NotifyOne ==
    /\ ntf_pc = "handling"
    /\ ~Truthy(ntf_token)
    /\ ntf_i <= Len(ntf_value)
    /\ LET resource == ntf_value[ntf_i].resource
           resource_data == ntf_value[ntf_i].resourceData
           platform == IF IsTeamsResource(resource) THEN "msteams" ELSE "outlook"
           built == IF platform = "msteams"
                    THEN build_teams_thread_ref(resource, resource_data)
                    ELSE build_outlook_thread_ref(resource, resource_data)
       IN  IF ~Contains(resource, "/messages") \/ ~built.ok
           THEN UNCHANGED ntf_calls
           ELSE ntf_calls' =
                   Append(ntf_calls,
                          [notification |-> ntf_i, platform |-> platform,
                           thread_ref |-> built.ref,
                           requester_user_id |-> NONE])
    /\ ntf_i' = ntf_i + 1
    /\ UNCHANGED <<ntf_token, ntf_value, ntf_response, ntf_pc>>
    /\ UNCHANGED otherThanNotify

\* return {"status": "accepted"}
NotifyReturn ==
    /\ ntf_pc = "handling"
    /\ ~Truthy(ntf_token)
    /\ ntf_i > Len(ntf_value)
    /\ ntf_response' = "accepted"
    /\ ntf_pc' = "done"
    /\ UNCHANGED <<ntf_token, ntf_value, ntf_i, ntf_calls>>
    /\ UNCHANGED otherThanNotify

NtfNext == NotifyValidation \/ NotifyOne \/ NotifyReturn

----------------------------------------------------------------------------
(* The resource parser on its own: _parse_graph_resource of app/api/v1.py  *)
(* applied to generated paths and to malformed strings.                    *)

\* Bound of the parser inputs: the (name, value) pairs of a generated path
MaxPairs == 2

\* The three renderings of a (name, value) pair
PairForms == {"bare", "single", "double"}

PairNames == {"teams", "channels", "messages"}

PairValues == {"team-123", "19:a b@thread.tacv2", "o'neil(x)/y"}

\* One pair as a path segment, the value percent-encoded
RenderPair(pair) ==
    IF pair.form = "bare" THEN pair.name \o "/" \o Quote(pair.value)
    ELSE IF pair.form = "single"
    THEN pair.name \o "('" \o Quote(pair.value) \o "')"
    ELSE pair.name \o "(\"" \o Quote(pair.value) \o "\")"

\* The path of a sequence of pairs
RECURSIVE RenderPath(_)
RenderPath(pairs) ==
    IF pairs = <<>> THEN ""
    ELSE "/" \o RenderPair(Head(pairs)) \o RenderPath(Tail(pairs))

GeneratedPairs ==
    SeqsUpTo([name : PairNames, value : PairValues, form : PairForms],
             MaxPairs) \ {<<>>}

\* Strings with no well-formed entity/value segment
MalformedResources ==
    {"", "/", "///", "abc", "(", ")", "()", "teams('a", "x)y(", "%zz",
     "a//b", "('')", "teams(", "'", "%"}

\* A bare entity name followed by another entity, itself bare or with a key
EntityPaths ==
    [first : {"me", "users", "teams", "messages"},
     second : {"messages", "channels", "mailFolders"},
     key : {NONE, "X", "19%3Aabc"}]

\* first/second or first/second('key')
RenderEntityPath(e) ==
    e.first \o "/" \o e.second
       \o (IF e.key = NONE THEN "" ELSE "('" \o e.key \o "')")

PrsInit ==
    /\ \/ /\ prs_pairs \in GeneratedPairs
          /\ prs_resource = RenderPath(prs_pairs)
       \/ /\ prs_pairs = <<>>
          /\ prs_resource \in MalformedResources
       \/ /\ prs_pairs = <<>>
          /\ prs_resource \in {RenderEntityPath(e) : e \in EntityPaths}
    /\ prs_parsed = EmptyDict
    /\ prs_pc = "called"

PrsIdle ==
    /\ prs_pairs = <<>>
    /\ prs_resource = ""
    /\ prs_parsed = EmptyDict
    /\ prs_pc = "idle"

\* _parse_graph_resource(resource) runs and returns
ParseResource ==
    /\ prs_pc = "called"
    /\ prs_parsed' = parse_graph_resource(prs_resource)
    /\ prs_pc' = "returned"
    /\ UNCHANGED <<prs_pairs, prs_resource>>
    /\ UNCHANGED otherThanParse

ParseNext == ParseResource

----------------------------------------------------------------------------
(* The preprocessor run repeatedly over one stored Message:                *)
(* app/pipeline/preprocess.py.                                             *)

\* Bound of the preprocessor runs over one row
MaxPreprocessRuns == 2

\* Message texts as ingestion stores them
StoredTexts ==
    {NONE, "", "plain", " padded ", "a &amp; b", "1 &lt; 2 &gt; 0",
     "&amp;lt;b&amp;gt;", "&amp;amp;", "&lt;&amp;&gt;", "line\r\nnext\r",
     "\r middle\rcr \r", "\n\ttabs\t\n", "&amp;#38;", "&lt;!-- x --&gt;",
     "x &amp;lt; y", "&amp", "&lt", "& lt;"}

NrmInit ==
    /\ \E platform \in Platforms, text \in StoredTexts,
          metadata \in {EmptyDict, "canonical_id" :> "x:7"} :
          nrm_msg = [platform |-> platform, source_msg_id |-> "7",
                     text |-> text, metadata_json |-> metadata]
    /\ nrm_first = EmptyDict
    /\ nrm_runs = 0

NrmIdle ==
    /\ nrm_msg = EmptyDict
    /\ nrm_first = EmptyDict
    /\ nrm_runs = 0

\* One run of the loop body of preprocess_thread over the row
PreprocessAgain ==
    /\ nrm_msg # EmptyDict
    /\ nrm_runs < MaxPreprocessRuns
    /\ nrm_msg' = PreprocessedMessage(nrm_msg)
    /\ nrm_first' = IF nrm_runs = 0 THEN PreprocessedMessage(nrm_msg)
                    ELSE nrm_first
    /\ nrm_runs' = nrm_runs + 1
    /\ UNCHANGED otherThanNormalize

NrmNext == PreprocessAgain

----------------------------------------------------------------------------
(* Two ingestion runs for one thread reference, interleaved at the         *)
(* statements of the find-or-create helpers of app/pipeline/ingest.py:     *)
(* each is a query, then an insert or an update, then a commit.            *)

RaceRuns == {1, 2}

\* The order in which a run finds or creates its rows (one author, one
\* message)
RaceTables == <<"workspaces", "channels", "threads", "users", "messages">>

\* The table whose primary key is part of the natural key
RaceParent(table) == IF table = "messages" THEN "threads" ELSE "workspaces"

\* The source id in the natural key, the same for both runs
RaceSourceId(table) ==
    CASE table = "workspaces" -> "T1"
      [] table = "channels" -> "C1"
      [] table = "threads" -> "1"
      [] table = "users" -> "U1"
      [] OTHER -> "1"

\* The UniqueConstraint of the table (app/models.py): workspaces has one on
\* slack_team_id and none on m365_tenant_id
RaceUnique(table, platform) == table # "workspaces" \/ platform = "slack"

\* filter_by(...) of the helper of the table, as run p issues it
RaceKey(table, held) ==
    IF table = "workspaces" THEN <<"", RaceSourceId(table)>>
    ELSE <<held[RaceParent(table)], RaceSourceId(table)>>

RaceMatches(rows, table, held) ==
    {r \in rows : r.table = table /\ r.key = RaceKey(table, held)}

\* The primary key of a row: the run that inserted it, 0 for a row that was
\* there before
RacePk(table, p) ==
    table \o (IF p = 0 THEN "#0" ELSE IF p = 1 THEN "#1" ELSE "#2")

NothingHeld == [t \in {RaceTables[k] : k \in 1..Len(RaceTables)} |-> NONE]

\* The rows of a thread ingested by an earlier run, up to table number n
RECURSIVE EarlierRows(_, _)
EarlierRows(n, held) ==
    IF n > Len(RaceTables) THEN {}
    ELSE LET table == RaceTables[n]
         IN  {[table |-> table, key |-> RaceKey(table, held),
               pk |-> RacePk(table, 0), writer |-> 0]}
                \cup EarlierRows(n + 1,
                                 [held EXCEPT ![table] = RacePk(table, 0)])

RaceInit ==
    /\ rc_platform \in Platforms
    /\ rc_rows \in {{}, EarlierRows(1, NothingHeld)}
    /\ rc_stage = [p \in RaceRuns |-> 1]
    /\ rc_phase = [p \in RaceRuns |-> "lookup"]
    /\ rc_found = [p \in RaceRuns |-> NONE]
    /\ rc_held = [p \in RaceRuns |-> NothingHeld]

RaceIdle ==
    /\ rc_platform = NONE
    /\ rc_rows = {}
    /\ rc_stage = EmptyDict
    /\ rc_phase = EmptyDict
    /\ rc_found = EmptyDict
    /\ rc_held = EmptyDict

\* db.query(...).filter_by(...).first(): a row of the natural key, any of
\* them when there are several, or None
RaceLookup(p) ==
    /\ rc_phase[p] = "lookup"
    /\ LET matches == RaceMatches(rc_rows, RaceTables[rc_stage[p]], rc_held[p])
       IN  IF matches = {} THEN rc_found' = [rc_found EXCEPT ![p] = NONE]
           ELSE \E r \in matches : rc_found' = [rc_found EXCEPT ![p] = r.pk]
    /\ rc_phase' = [rc_phase EXCEPT ![p] = "write"]
    /\ UNCHANGED <<rc_platform, rc_rows, rc_stage, rc_held>>
    /\ UNCHANGED otherThanRace

\* The run goes on to its next table, or is done
RaceAdvance(p, ok) ==
    IF ~ok THEN /\ rc_phase' = [rc_phase EXCEPT ![p] = "failed"]
                /\ UNCHANGED rc_stage
    ELSE IF rc_stage[p] = Len(RaceTables)
    THEN /\ rc_phase' = [rc_phase EXCEPT ![p] = "done"]
         /\ UNCHANGED rc_stage
    ELSE /\ rc_phase' = [rc_phase EXCEPT ![p] = "lookup"]
         /\ rc_stage' = [rc_stage EXCEPT ![p] = @ + 1]

\* The rest of the helper and the commit: the row found is updated (a
\* Workspace found is left as it is); with no row found one is added, which
\* the commit refuses with IntegrityError when the table's unique constraint
\* already holds a row of the key
RaceWrite(p) ==
    /\ rc_phase[p] = "write"
    /\ LET table == RaceTables[rc_stage[p]]
           matches == RaceMatches(rc_rows, table, rc_held[p])
       IN  IF rc_found[p] # NONE
           THEN /\ rc_rows' = {IF r.pk = rc_found[p] /\ table # "workspaces"
                               THEN [r EXCEPT !.writer = p] ELSE r :
                               r \in rc_rows}
                /\ rc_held' = [rc_held EXCEPT ![p][table] = rc_found[p]]
                /\ RaceAdvance(p, TRUE)
           ELSE IF RaceUnique(table, rc_platform) /\ matches # {}
           THEN /\ UNCHANGED <<rc_rows, rc_held>>
                /\ RaceAdvance(p, FALSE)
           ELSE /\ rc_rows' = rc_rows \cup
                      {[table |-> table, key |-> RaceKey(table, rc_held[p]),
                        pk |-> RacePk(table, p), writer |-> p]}
                /\ rc_held' = [rc_held EXCEPT ![p][table] = RacePk(table, p)]
                /\ RaceAdvance(p, TRUE)
    /\ UNCHANGED <<rc_platform, rc_found>>
    /\ UNCHANGED otherThanRace

RaceNext == \E p \in RaceRuns : RaceLookup(p) \/ RaceWrite(p)

----------------------------------------------------------------------------
(* Teams adapter: app/platforms/teams/bot.py *)

\* The message ids a thread reference or an invoke payload carries
TeamsMessageIds == {"", "thread-message-id", "1612289765949"}

\* Where a thread reference points: a channel of a team, a chat, or nothing
TeamsRefShapes ==
    { [team_id |-> "team-123", channel_id |-> "channel-456", chat_id |-> "",
       conversation_type |-> "channel"],
      [chat_id |-> "19:chat@thread.v2", conversation_type |-> "chat"],
      EmptyDict }

\* Thread references: with and without a tenant_id, with and without a
\* message_id
TeamsThreadRefs ==
    { Update(Update(shape, tenant), message) :
        shape \in TeamsRefShapes,
        tenant \in {EmptyDict, [tenant_id |-> "tenant-789"]},
        message \in {EmptyDict} \cup {[message_id |-> m] : m \in TeamsMessageIds} }

\* The channel entry of an activity's channel_data: absent, with an id, or
\* without one
TeamsChannels ==
    { [present |-> FALSE, id |-> NONE],
      [present |-> TRUE, id |-> NONE],
      [present |-> TRUE, id |-> "channel-456"],
      [present |-> TRUE, id |-> "19:abc@thread.tacv2"] }

\* Bot Framework activities: conversation.id is never empty; the invoke value
\* may carry a messagePayload id, the activity a reply_to_id
TeamsActivities ==
    [ team_id : {NONE, "team-123"},
      channel : TeamsChannels,
      tenant_id : {NONE, "tenant-789"},
      payload_id : {NONE, "activity-message-id"},
      reply_to_id : {NONE, "reply-1"},
      conversation_id : {"conversation-xyz"},
      conversation_tenant_id : {NONE, "tenant-conv"},
      from_id : {"user-42"} ]

\* TeamsAdapter.serialize_thread_ref
serialize_thread_ref(context) ==
    LET metadata == context.metadata
        tenant_id == Or(Get(metadata, "tenant_id"), context.workspace_id)
    IN  [ platform |-> "msteams",
          tenant_id |-> tenant_id,
          team_id |-> GetOr(metadata, "team_id", ""),
          channel_id |-> GetOr(metadata, "channel_id", context.channel_id),
          chat_id |-> GetOr(metadata, "chat_id", ""),
          conversation_type |->
              GetOr(metadata, "conversation_type",
                    IF Truthy(Get(metadata, "chat_id")) THEN "chat" ELSE "channel"),
          message_id |-> context.thread_id ]

\* context_from_thread_ref with the channel taken for the thread
context_from_thread_ref_channel(thread_ref, requester_id) ==
    LET tenant_id == GetOr(thread_ref, "tenant_id", "")
        channel_id == Or(Or(Get(thread_ref, "channel_id"), Get(thread_ref, "chat_id")), "")
    IN  [ platform |-> "msteams",
          workspace_id |-> Or(tenant_id, GetOr(thread_ref, "team_id", "")),
          channel_id |-> channel_id,
          thread_id |-> channel_id,
          requester_id |-> requester_id,
          metadata |->
              [ tenant_id |-> tenant_id,
                team_id |-> GetOr(thread_ref, "team_id", ""),
                channel_id |-> GetOr(thread_ref, "channel_id", ""),
                chat_id |-> GetOr(thread_ref, "chat_id", ""),
                conversation_type |-> GetOr(thread_ref, "conversation_type", "channel"),
                message_id |-> channel_id ] ]
\* TeamsAdapter.context_from_thread_ref
context_from_thread_ref(thread_ref, requester_id) ==
    LET tenant_id == GetOr(thread_ref, "tenant_id", "")
        conversation_type == GetOr(thread_ref, "conversation_type", "channel")
        channel_id == Or(Or(Get(thread_ref, "channel_id"), Get(thread_ref, "chat_id")), "")
        message_id == GetOr(thread_ref, "message_id", "")
    IN  [ platform |-> "msteams",
          workspace_id |-> Or(tenant_id, GetOr(thread_ref, "team_id", "")),
          channel_id |-> channel_id,
          thread_id |-> message_id,
          requester_id |-> requester_id,
          metadata |->
              [ tenant_id |-> tenant_id,
                team_id |-> GetOr(thread_ref, "team_id", ""),
                channel_id |-> GetOr(thread_ref, "channel_id", ""),
                chat_id |-> GetOr(thread_ref, "chat_id", ""),
                conversation_type |-> conversation_type,
                message_id |-> message_id ] ]

\* TeamsAdapter._context_from_activity
context_from_activity(activity) ==
    LET team_id == activity.team_id
        channel_id ==
            Or(activity.channel.id,
               IF activity.channel.present THEN activity.conversation_id ELSE NONE)
        conversation_type ==
            IF ~Truthy(channel_id) \/ StartsWith(channel_id, "19:")
            THEN "chat" ELSE "channel"
        chat_id ==
            IF conversation_type = "chat" THEN activity.conversation_id ELSE NONE
        message_id ==
            Or(Or(activity.payload_id, activity.reply_to_id), activity.conversation_id)
        tenant_id == Or(activity.conversation_tenant_id, activity.tenant_id)
    IN  [ platform |-> "msteams",
          workspace_id |-> Or(Or(tenant_id, team_id), ""),
          channel_id |-> Or(Or(channel_id, chat_id), ""),
          thread_id |-> message_id,
          requester_id |-> activity.from_id,
          metadata |->
              [ team_id |-> Or(team_id, ""),
                channel_id |-> Or(Or(channel_id, chat_id), ""),
                chat_id |-> Or(chat_id, ""),
                tenant_id |-> Or(tenant_id, ""),
                conversation_type |-> conversation_type,
                message_id |-> Or(message_id, "") ] ]

\* The briefs a run hands to publish_brief
TeamsBriefs == { [summary |-> "Done"], [summary |-> "Decided"] }

\* An adapter with a publisher that has received nothing, about to build a
\* context
TmsInit ==
    /\ tms_source \in {"activity", "thread_ref"}
    /\ tms_input \in IF tms_source = "activity" THEN TeamsActivities ELSE TeamsThreadRefs
    /\ tms_context = EmptyDict
    /\ tms_serialized = EmptyDict
    /\ tms_calls = <<>>
    /\ tms_brief \in TeamsBriefs
    /\ tms_pc = "start"

\* No adapter in use
TmsIdle ==
    /\ tms_source = "thread_ref"
    /\ tms_input = EmptyDict
    /\ tms_context = EmptyDict
    /\ tms_serialized = EmptyDict
    /\ tms_calls = <<>>
    /\ tms_brief = EmptyDict
    /\ tms_pc = "idle"

\* adapter.context_from_thread_ref(thread_ref, requester_id)
ContextFromThreadRef ==
    /\ tms_pc = "start"
    /\ tms_source = "thread_ref"
    /\ tms_context' = context_from_thread_ref(tms_input, "user-42")
    /\ tms_pc' = "context"
    /\ UNCHANGED <<tms_source, tms_input, tms_serialized, tms_calls, tms_brief>>
    /\ UNCHANGED otherThanTeams

\* adapter._context_from_activity(activity)
ContextFromActivity ==
    /\ tms_pc = "start"
    /\ tms_source = "activity"
    /\ tms_context' = context_from_activity(tms_input)
    /\ tms_pc' = "context"
    /\ UNCHANGED <<tms_source, tms_input, tms_serialized, tms_calls, tms_brief>>
    /\ UNCHANGED otherThanTeams

\* adapter.serialize_thread_ref(context)
SerializeThreadRef ==
    /\ tms_pc = "context"
    /\ tms_serialized' = serialize_thread_ref(tms_context)
    /\ tms_pc' = "serialized"
    /\ UNCHANGED <<tms_source, tms_input, tms_context, tms_calls, tms_brief>>
    /\ UNCHANGED otherThanTeams

\* adapter.send_processing_notice(context): publisher.post_processing(metadata)
SendProcessingNotice ==
    /\ tms_pc \in {"context", "serialized"}
    /\ tms_calls' =
           Append(tms_calls, [method |-> "post_processing", metadata |-> tms_context.metadata])
    /\ tms_pc' = "noticed"
    /\ UNCHANGED <<tms_source, tms_input, tms_context, tms_serialized, tms_brief>>
    /\ UNCHANGED otherThanTeams

\* adapter.publish_brief(context, brief): publisher.publish_brief(metadata, brief)
PublishBrief ==
    /\ tms_pc = "noticed"
    /\ tms_calls' =
           Append(tms_calls, [method |-> "publish_brief", metadata |-> tms_context.metadata,
                              brief |-> tms_brief])
    /\ tms_pc' = "done"
    /\ UNCHANGED <<tms_source, tms_input, tms_context, tms_serialized, tms_brief>>
    /\ UNCHANGED otherThanTeams

TmsNext ==
    \/ ContextFromThreadRef
    \/ ContextFromActivity
    \/ SerializeThreadRef
    \/ SendProcessingNotice
    \/ PublishBrief

----------------------------------------------------------------------------
(* Extraction on its own: extract_items of app/pipeline/extract.py from     *)
(* the answer of llm.complete_json on, with the validation of               *)
(* app/schemas.py.  The answer is a dict as json.loads returns it.          *)

\* The keys whose values are JSON objects rather than strings in the dicts
\* drawn here (Graph sends channelIdentity as an object)
ObjectKeys == {"channelIdentity"}

\* Dict[str, str] of Provenance.source_thread_ref: every value is a str
ValidThreadRef(thread_ref) == DOMAIN thread_ref \cap ObjectKeys = {}

\* SupportRef: platform, native_id, msg_id and quote are required str fields
ValidSupportRef(ref) ==
    {"platform", "native_id", "msg_id", "quote"} \subseteq DOMAIN ref

\* A SupportRef as validation builds it: url defaults to None
AsSupportRef(ref) ==
    SupportRef(ref["platform"], ref["native_id"], ref["msg_id"], GetOr(ref, "url", NONE))

\* Evidence references as the model may write them: complete, with an empty
\* platform or msg_id, or with the key left out
RawRefs ==
    LET full == [platform |-> "slack", native_id |-> "1", msg_id |-> "slack:1", quote |-> "q"]
    IN  { full,
          [full EXCEPT !["platform"] = ""],
          [full EXCEPT !["msg_id"] = ""],
          [full EXCEPT !["platform"] = "", !["msg_id"] = ""],
          [k \in {"native_id", "msg_id", "quote"} |-> full[k]],
          [k \in {"platform", "native_id", "quote"} |-> full[k]] }

\* What a section of the answer may hold: nothing, or one item with one
\* reference
RawSections == { <<>> } \cup { <<RankItem(1, 80, <<ref>>)>> : ref \in RawRefs }

\* The answers: every top-level key may be missing
RawAnswers ==
    { Update(Update(Update(decisions, actions), rest), provenance) :
        decisions \in {EmptyDict} \cup {[decisions |-> s] : s \in RawSections},
        actions \in {EmptyDict} \cup {[actions |-> s] : s \in RawSections},
        rest \in {EmptyDict, [risks |-> <<>>, open_questions |-> <<>>, people_map |-> EmptyDict]},
        provenance \in {EmptyDict, [provenance |-> EmptyDict],
                        [provenance |-> [message_ids |-> {"slack:77"}]]} }

\* The thread references of the requests: the Slack one of the /condense
\* command, and one built from a Graph channel notification
ExtThreadRefs ==
    { [team_id |-> "T1", channel_id |-> "C1", thread_ts |-> "1"],
      ("team_id" :> "team-123") @@ ("channel_id" :> "19:abc") @@ ("message_id" :> "5")
         @@ ("conversation_type" :> "channel")
         @@ ("channelIdentity" :> [teamId |-> "team-123", channelId |-> "19:abc"]) }

\* raw.setdefault(...) for the four lists
DefaultedLists(raw) ==
    [attr \in {Attrs[k] : k \in 1..Len(Attrs)} |-> GetOr(raw, attr, <<>>)]

\* The references of the four lists of an answer, as the answer wrote them
RawRefsOf(raw) ==
    UNION { UNION { {DefaultedLists(raw)[Attrs[a]][i].supporting_msgs[r] :
                        r \in 1..Len(DefaultedLists(raw)[Attrs[a]][i].supporting_msgs)} :
                    i \in 1..Len(DefaultedLists(raw)[Attrs[a]]) } :
            a \in 1..Len(Attrs) }

\* CondenseResult.model_validate(raw) does not raise
model_validate(raw, thread_ref) ==
    /\ \A ref \in RawRefsOf(raw) : ValidSupportRef(ref)
    /\ ValidThreadRef(thread_ref)

\* The lists of the validated result
ValidatedLists(raw) ==
    [attr \in {Attrs[k] : k \in 1..Len(Attrs)} |->
        [i \in 1..Len(DefaultedLists(raw)[attr]) |->
            [DefaultedLists(raw)[attr][i] EXCEPT !.supporting_msgs =
                [r \in 1..Len(@) |-> AsSupportRef(@[r])]]]]

\* A request about to be answered
ExtInit ==
    /\ ext_platform \in {"slack", "msteams"}
    /\ ext_thread_ref \in ExtThreadRefs
    /\ ext_raw \in RawAnswers
    /\ ext_result = EmptyDict
    /\ ext_pc = "start"

\* No extraction under way
ExtIdle ==
    /\ ext_platform = NONE
    /\ ext_thread_ref = EmptyDict
    /\ ext_raw = EmptyDict
    /\ ext_result = EmptyDict
    /\ ext_pc = "idle"

\* extract_items, lines 31-69: returns the result or raises ValidationError
ExtractItems ==
    /\ ext_pc = "start"
    /\ IF model_validate(ext_raw, ext_thread_ref)
       THEN /\ ext_result' =
                  extract_items(ext_platform, "https://thread", ext_thread_ref,
                                [valid |-> TRUE, lists |-> ValidatedLists(ext_raw)], "rc-uuid")
            /\ ext_pc' = "returned"
       ELSE /\ ext_result' = EmptyDict
            /\ ext_pc' = "raised"
    /\ UNCHANGED <<ext_platform, ext_thread_ref, ext_raw>>
    /\ UNCHANGED otherThanExtract

ExtNext == ExtractItems

----------------------------------------------------------------------------
(* The thread reference builders on their own: _build_teams_thread_ref     *)
(* and _build_outlook_thread_ref of app/api/v1.py applied to one           *)
(* notification.                                                           *)

\* The resources of the notifications: chat and channel messages, a reply, a
\* collection, a message addressed without team or chat, mailbox messages
BuilderResources ==
    { "/chats('19:chat')/messages('5')",
      "/teams('team-123')/channels('19%3Aabc')/messages('5')",
      "/teams('team-123')/channels('19%3Aabc')/messages('5')/replies('7')",
      "/teams('team-123')/channels('19%3Aabc')/messages",
      "/messages('5')",
      "me/messages('X')",
      "/users('user%40example.com')/messages('X')" }

\* resourceData: each field there or not
BuilderResourceData ==
    { Update(Update(Update(Update(id, reply), chat), conversation), identity) :
         id \in {EmptyDict} \cup {[id |-> m] : m \in {"5", "7"}},
         reply \in {EmptyDict} \cup {[replyToId |-> m] : m \in {"", "5"}},
         chat \in {EmptyDict, [chatId |-> "19:explicit"]},
         conversation \in {EmptyDict, [conversationId |-> "19:conversation@thread.v2"]},
         identity \in {EmptyDict,
                       [channelIdentity |-> [teamId |-> "team-123", channelId |-> "19:abc"]]} }

\* A notification about to be handed to a builder
BldInit ==
    /\ bld_builder \in {"msteams", "outlook"}
    /\ bld_note \in [resource : BuilderResources, resourceData : BuilderResourceData]
    /\ bld_built = NoRef
    /\ bld_pc = "start"

\* No builder in use
BldIdle ==
    /\ bld_builder = NONE
    /\ bld_note = EmptyDict
    /\ bld_built = NoRef
    /\ bld_pc = "idle"

\* _build_teams_thread_ref(resource, resource_data)
BuildTeamsThreadRef ==
    /\ bld_pc = "start"
    /\ bld_builder = "msteams"
    /\ bld_built' = build_teams_thread_ref(bld_note.resource, bld_note.resourceData)
    /\ bld_pc' = "built"
    /\ UNCHANGED <<bld_builder, bld_note>>
    /\ UNCHANGED otherThanBuild

\* _build_outlook_thread_ref(resource, resource_data)
BuildOutlookThreadRef ==
    /\ bld_pc = "start"
    /\ bld_builder = "outlook"
    /\ bld_built' = build_outlook_thread_ref(bld_note.resource, bld_note.resourceData)
    /\ bld_pc' = "built"
    /\ UNCHANGED <<bld_builder, bld_note>>
    /\ UNCHANGED otherThanBuild

BldNext == BuildTeamsThreadRef \/ BuildOutlookThreadRef

----------------------------------------------------------------------------
(* The scoring function on its own: score_item of app/pipeline/rank.py on  *)
(* one item, with every parameter drawn, and rank_and_filter on the result *)
(* that holds just that item.  Hundredths, as in the ranker.               *)

\* The items scored: confidence 0, 0.55 and 1, with no evidence, evidence
\* the index may hold, evidence it does not hold, and the same message twice
ScoredItems ==
    { RankItem(1, confidence, refs) :
         confidence \in {0, 55, 100},
         refs \in RankRefChoices
                  \cup {<<SupportRef("slack", "1", "slack:1", NONE),
                          SupportRef("slack", "1", "slack:1", NONE)>>} }

\* Reaction indexes as _build_reaction_index returns them
ScoredIndexes ==
    { [x \in {} |-> 0], [x \in {"slack:1"} |-> 0], [x \in {"slack:1"} |-> 1],
      [x \in {"slack:1", "slack:9"} |-> 3], [x \in {"slack:2"} |-> 40] }

\* seniority_weight, recency_bonus and contradiction_penalty: the defaults
\* 1.0, 0.0, 0.0 and other values
ScoredWeights ==
    [seniority : {0, 1, 2}, recency : {0, 10}, contradiction : {0, 30, 200}]

\* An item about to be scored
ScrInit ==
    /\ scr_item \in ScoredItems
    /\ scr_index \in ScoredIndexes
    /\ scr_weights \in ScoredWeights
    /\ scr_score = NONE
    /\ scr_ranked = NONE
    /\ scr_pc = "start"

\* Nothing to score
ScrIdle ==
    /\ scr_item = EmptyDict
    /\ scr_index = EmptyDict
    /\ scr_weights = EmptyDict
    /\ scr_score = NONE
    /\ scr_ranked = NONE
    /\ scr_pc = "idle"

\* score_item(item, reactions_index, seniority_weight, recency_bonus,
\* contradiction_penalty)
ScoreItem ==
    /\ scr_pc = "start"
    /\ scr_score' = score_item(scr_item, scr_index, scr_weights.seniority,
                               scr_weights.recency, scr_weights.contradiction)
    /\ scr_pc' = "scored"
    /\ UNCHANGED <<scr_item, scr_index, scr_weights, scr_ranked>>
    /\ UNCHANGED otherThanScore

\* rank_and_filter(result, reactions_index, 0.0) on the result whose only
\* item is the decision scr_item
RankScoredItem ==
    /\ scr_pc = "scored"
    /\ scr_ranked' =
          rank_and_filter([decisions |-> <<scr_item>>, risks |-> <<>>,
                           actions |-> <<>>, open_questions |-> <<>>],
                          scr_index, 0).decisions
    /\ scr_pc' = "ranked"
    /\ UNCHANGED <<scr_item, scr_index, scr_weights, scr_score>>
    /\ UNCHANGED otherThanScore

ScrNext == ScoreItem \/ RankScoredItem

----------------------------------------------------------------------------
(* The background run: trigger_condense, enqueue_condense and the control  *)
(* flow of _process_condense of app/workers/tasks.py, with save_brief of    *)
(* app/pipeline/brief.py.  What a stage computes is modelled in the other   *)
(* components; here a stage returns or raises.                              *)

\* Bound of the background runs: the calls that enqueue a task
MaxTriggers == 2

\* The awaited calls of _process_condense, in program order
Stages == <<"ingest", "preprocess", "segment", "extract", "rank", "link", "save", "publish">>

\* f"rc-{uuid.uuid4()}": the n-th generated id, different from all others
Uuid(n) == "rc-uuid-" \o ToString(n)

\* The options a caller passes to trigger_condense: none (None and {} both
\* give an empty payload), options with and without a run_id
CallerOptions ==
    { EmptyDict, [mode |-> "fast"],
      [run_id |-> "rc-given"], [run_id |-> "rc-given", mode |-> "fast"] }

\* payload = options.copy() if options else {}; payload.setdefault("run_id", run_id)
trigger_payload_keeps_given(options, run_id) ==
    [payload |-> SetDefault(options, "run_id", run_id), options_after |-> options]

\* payload = options.copy() if options else {}; payload["run_id"] = run_id:
\* the payload enqueued, and the caller's mapping after the call
trigger_payload(options, run_id) ==
    [payload |-> Put(options, "run_id", run_id), options_after |-> options]

\* db.merge(record); db.commit(): the row with the record's primary key is
\* replaced, or the record is inserted
merge(rows, record) ==
    {r \in rows : r.run_id # record.run_id} \cup {record}

\* Nothing was triggered and no run is under way
PrcInit ==
    /\ prc_triggers = 0
    /\ prc_caller = [before |-> EmptyDict, after |-> EmptyDict]
    /\ prc_returned = <<>>
    /\ prc_queue = <<>>
    /\ prc_task = EmptyDict
    /\ prc_run_id = NONE
    /\ prc_pc = "idle"
    /\ prc_stages = <<>>
    /\ prc_error = NONE
    /\ prc_slack_open = FALSE
    /\ prc_closes = [db |-> 0, slack |-> 0]
    /\ prc_briefs = {}
    /\ prc_published = <<>>

PrcIdle == PrcInit

\* trigger_condense(platform, thread_ref, requester_user_id, options)
TriggerCondense ==
    /\ prc_triggers < MaxTriggers
    /\ \E platform \in {"slack", "msteams"}, options \in CallerOptions :
          LET run_id == Uuid(prc_triggers + 1)
              sent == trigger_payload(options, run_id)
          IN  /\ prc_caller' = [before |-> options, after |-> sent.options_after]
              /\ prc_returned' = Append(prc_returned, run_id)
              /\ prc_queue' = Append(prc_queue,
                                     [task |-> prc_triggers + 1, platform |-> platform,
                                      options |-> sent.payload, returned |-> run_id])
    /\ prc_triggers' = prc_triggers + 1
    /\ UNCHANGED <<prc_task, prc_run_id, prc_pc, prc_stages, prc_error, prc_slack_open,
                   prc_closes, prc_briefs, prc_published>>
    /\ UNCHANGED otherThanProcess

\* enqueue_condense.delay(platform, thread_ref, requester_user_id, options)
\* by a caller other than trigger_condense: options as the caller wrote them
EnqueueDirect ==
    /\ prc_triggers < MaxTriggers
    /\ \E platform \in {"slack", "msteams"}, options \in CallerOptions :
          prc_queue' = Append(prc_queue,
                              [task |-> prc_triggers + 1, platform |-> platform,
                               options |-> options, returned |-> NONE])
    /\ prc_triggers' = prc_triggers + 1
    /\ UNCHANGED <<prc_caller, prc_returned, prc_task, prc_run_id, prc_pc, prc_stages,
                   prc_error, prc_slack_open, prc_closes, prc_briefs, prc_published>>
    /\ UNCHANGED otherThanProcess

\* _process_condense, lines 60-62: run_id, slack_client = None, db = SessionLocal()
ProcessStart ==
    /\ prc_pc \in {"idle", "returned", "raised"}
    /\ prc_queue # <<>>
    /\ prc_task' = Head(prc_queue)
    /\ prc_queue' = Tail(prc_queue)
    /\ prc_run_id' = Or(Get(Head(prc_queue).options, "run_id"),
                        Uuid(MaxTriggers + Head(prc_queue).task))
    /\ prc_pc' = "clients"
    /\ prc_stages' = <<>>
    /\ prc_error' = NONE
    /\ prc_slack_open' = FALSE
    /\ prc_closes' = [db |-> 0, slack |-> 0]
    /\ UNCHANGED <<prc_triggers, prc_caller, prc_returned, prc_briefs, prc_published>>
    /\ UNCHANGED otherThanProcess

\* lines 64-66: the Graph client, or the Slack client; either may raise
ProcessClients ==
    /\ prc_pc = "clients"
    /\ \E ok \in BOOLEAN :
          IF ok
          THEN /\ prc_slack_open' = (prc_task.platform = "slack")
               /\ prc_pc' = Stages[1]
               /\ prc_stages' = <<Stages[1]>>
               /\ UNCHANGED prc_error
          ELSE /\ prc_error' = "clients"
               /\ prc_pc' = "finally"
               /\ UNCHANGED <<prc_slack_open, prc_stages>>
    /\ UNCHANGED <<prc_triggers, prc_caller, prc_returned, prc_queue, prc_task, prc_run_id,
                   prc_closes, prc_briefs, prc_published>>
    /\ UNCHANGED otherThanProcess

\* The position of a stage in the program
StageIndex(stage) == CHOOSE i \in 1..Len(Stages) : Stages[i] = stage

\* lines 67-87: the stage under way returns, and the next one starts, or it
\* raises.  save_brief merges the Brief of run_id; publish_brief publishes it.
ProcessStage ==
    /\ prc_pc \in {Stages[i] : i \in 1..Len(Stages)}
    /\ \E ok \in BOOLEAN :
          IF ok
          THEN /\ prc_briefs' =
                     IF prc_pc = "save"
                     THEN merge(prc_briefs, [run_id |-> prc_run_id, task |-> prc_task.task])
                     ELSE prc_briefs
               /\ prc_published' =
                     IF prc_pc = "publish" THEN Append(prc_published, prc_task.task)
                     ELSE prc_published
               /\ IF StageIndex(prc_pc) < Len(Stages)
                  THEN /\ prc_pc' = Stages[StageIndex(prc_pc) + 1]
                       /\ prc_stages' = Append(prc_stages, Stages[StageIndex(prc_pc) + 1])
                  ELSE /\ prc_pc' = "finally"
                       /\ UNCHANGED prc_stages
               /\ UNCHANGED prc_error
          ELSE /\ prc_error' = prc_pc
               /\ prc_pc' = "finally"
               /\ UNCHANGED <<prc_stages, prc_briefs, prc_published>>
    /\ UNCHANGED <<prc_triggers, prc_caller, prc_returned, prc_queue, prc_task, prc_run_id,
                   prc_slack_open, prc_closes>>
    /\ UNCHANGED otherThanProcess

\* The closes of a run that reaches them only when no stage raised
ProcessFinallyOnSuccess ==
    /\ prc_pc = "finally"
    /\ prc_closes' =
          IF prc_error = NONE
          THEN [db |-> prc_closes.db + 1,
                slack |-> prc_closes.slack + (IF prc_slack_open THEN 1 ELSE 0)]
          ELSE prc_closes
    /\ prc_pc' = IF prc_error = NONE THEN "returned" ELSE "raised"
    /\ UNCHANGED <<prc_triggers, prc_caller, prc_returned, prc_queue, prc_task, prc_run_id,
                   prc_stages, prc_error, prc_slack_open, prc_briefs, prc_published>>
    /\ UNCHANGED otherThanProcess

\* lines 88-92: finally: slack_client.close() when there is one, db.close();
\* then return run_id, or the exception goes on to the caller
ProcessFinally ==
    /\ prc_pc = "finally"
    /\ prc_closes' =
          [db |-> prc_closes.db + 1,
           slack |-> prc_closes.slack + (IF prc_slack_open THEN 1 ELSE 0)]
    /\ prc_pc' = IF prc_error = NONE THEN "returned" ELSE "raised"
    /\ UNCHANGED <<prc_triggers, prc_caller, prc_returned, prc_queue, prc_task, prc_run_id,
                   prc_stages, prc_error, prc_slack_open, prc_briefs, prc_published>>
    /\ UNCHANGED otherThanProcess

PrcNext ==
    \/ TriggerCondense
    \/ EnqueueDirect
    \/ ProcessStart
    \/ ProcessClients
    \/ ProcessStage
    \/ ProcessFinally

----------------------------------------------------------------------------
(* Specifications *)

InitSegment == SegInit /\ RankIdle /\ LinkIdle /\ IngIdle /\ CondIdle /\ NtfIdle /\ PrsIdle /\ NrmIdle /\ RaceIdle /\ TmsIdle /\ ExtIdle /\ BldIdle /\ ScrIdle /\ PrcIdle

SpecSegment == InitSegment /\ [][SegNext]_vars

InitRank == RankInit /\ SegIdle /\ LinkIdle /\ IngIdle /\ CondIdle /\ NtfIdle /\ PrsIdle /\ NrmIdle /\ RaceIdle /\ TmsIdle /\ ExtIdle /\ BldIdle /\ ScrIdle /\ PrcIdle

SpecRank == InitRank /\ [][RankNext]_vars

InitLink == LinkInit /\ SegIdle /\ RankIdle /\ IngIdle /\ CondIdle /\ NtfIdle /\ PrsIdle /\ NrmIdle /\ RaceIdle /\ TmsIdle /\ ExtIdle /\ BldIdle /\ ScrIdle /\ PrcIdle

SpecLink == InitLink /\ [][LinkNext]_vars

InitIngest == IngInit /\ SegIdle /\ RankIdle /\ LinkIdle /\ CondIdle /\ NtfIdle /\ PrsIdle /\ NrmIdle /\ RaceIdle /\ TmsIdle /\ ExtIdle /\ BldIdle /\ ScrIdle /\ PrcIdle

SpecIngest == InitIngest /\ [][IngNext]_vars

SpecCondense == InitIngest /\ [][CondNext]_vars

InitNotify ==
    NtfInit /\ SegIdle /\ RankIdle /\ LinkIdle /\ IngIdle /\ CondIdle /\ PrsIdle /\ NrmIdle /\ RaceIdle /\ TmsIdle /\ ExtIdle /\ BldIdle /\ ScrIdle /\ PrcIdle

SpecNotify == InitNotify /\ [][NtfNext]_vars

InitParse ==
    PrsInit /\ SegIdle /\ RankIdle /\ LinkIdle /\ IngIdle /\ CondIdle
       /\ NtfIdle /\ NrmIdle /\ RaceIdle /\ TmsIdle /\ ExtIdle /\ BldIdle /\ ScrIdle /\ PrcIdle

SpecParse == InitParse /\ [][ParseNext]_vars

InitNormalize ==
    NrmInit /\ SegIdle /\ RankIdle /\ LinkIdle /\ IngIdle /\ CondIdle
       /\ NtfIdle /\ PrsIdle /\ RaceIdle /\ TmsIdle /\ ExtIdle /\ BldIdle /\ ScrIdle /\ PrcIdle

SpecNormalize == InitNormalize /\ [][NrmNext]_vars

InitRace ==
    RaceInit /\ SegIdle /\ RankIdle /\ LinkIdle /\ IngIdle /\ CondIdle
       /\ NtfIdle /\ PrsIdle /\ NrmIdle /\ TmsIdle /\ ExtIdle /\ BldIdle /\ ScrIdle /\ PrcIdle

SpecRace == InitRace /\ [][RaceNext]_vars

InitTeams ==
    TmsInit /\ SegIdle /\ RankIdle /\ LinkIdle /\ IngIdle /\ CondIdle
       /\ NtfIdle /\ PrsIdle /\ NrmIdle /\ RaceIdle /\ ExtIdle /\ BldIdle /\ ScrIdle /\ PrcIdle

SpecTeams == InitTeams /\ [][TmsNext]_vars

InitExtract ==
    ExtInit /\ SegIdle /\ RankIdle /\ LinkIdle /\ IngIdle /\ CondIdle
       /\ NtfIdle /\ PrsIdle /\ NrmIdle /\ RaceIdle /\ TmsIdle /\ BldIdle /\ ScrIdle /\ PrcIdle

SpecExtract == InitExtract /\ [][ExtNext]_vars

InitBuild ==
    BldInit /\ SegIdle /\ RankIdle /\ LinkIdle /\ IngIdle /\ CondIdle
       /\ NtfIdle /\ PrsIdle /\ NrmIdle /\ RaceIdle /\ TmsIdle /\ ExtIdle /\ ScrIdle /\ PrcIdle

SpecBuild == InitBuild /\ [][BldNext]_vars

InitScore ==
    ScrInit /\ SegIdle /\ RankIdle /\ LinkIdle /\ IngIdle /\ CondIdle
       /\ NtfIdle /\ PrsIdle /\ NrmIdle /\ RaceIdle /\ TmsIdle /\ ExtIdle
       /\ BldIdle /\ PrcIdle

SpecScore == InitScore /\ [][ScrNext]_vars

InitProcess ==
    PrcInit /\ SegIdle /\ RankIdle /\ LinkIdle /\ IngIdle /\ CondIdle
       /\ NtfIdle /\ PrsIdle /\ NrmIdle /\ RaceIdle /\ TmsIdle /\ ExtIdle
       /\ BldIdle /\ ScrIdle

SpecProcess == InitProcess /\ [][PrcNext]_vars

----------------------------------------------------------------------------
(* Segmenter: claims *)

\* The lines of the input, as the loop renders them
SegLines == [i \in 1..Len(seg_messages) |-> RenderLine(seg_messages[i])]

\* The measured token cost of a chunk: the sum over its lines
RECURSIVE SumTokens(_)
SumTokens(chunk) ==
    IF chunk = <<>> THEN 0
    ELSE count_tokens(Head(chunk)) + SumTokens(Tail(chunk))

RECURSIVE Flatten(_)
Flatten(chunks) ==
    IF chunks = <<>> THEN <<>> ELSE Head(chunks) \o Flatten(Tail(chunks))

\* C1: every chunk produced costs at most max_tokens, unless it is a single
\* line that alone costs more; a line that alone costs more than max_tokens
\* is never in a chunk with another line, and once the function has
\* returned every such line of the input is a chunk of its own, whole.
C1_SegmentationBound ==
    /\ \A k \in 1..Len(seg_chunks) :
         /\ seg_chunks[k] # <<>>
         /\ \/ SumTokens(seg_chunks[k]) <= seg_max_tokens
            \/ /\ Len(seg_chunks[k]) = 1
               /\ count_tokens(seg_chunks[k][1]) > seg_max_tokens
         /\ \A j \in 1..Len(seg_chunks[k]) :
               count_tokens(seg_chunks[k][j]) > seg_max_tokens
                   => Len(seg_chunks[k]) = 1
    /\ seg_pc = "done" =>
         \A i \in 1..Len(seg_messages) :
            count_tokens(SegLines[i]) > seg_max_tokens =>
               \E k \in 1..Len(seg_segments) :
                  /\ seg_chunks[k] = <<SegLines[i]>>
                  /\ seg_segments[k] = SegLines[i]

\* C1 witness: the function returned a chunk of several lines within the
\* budget and a chunk that is one oversize line
C1_Witness ==
    /\ seg_pc = "done"
    /\ \E k \in 1..Len(seg_chunks) :
          Len(seg_chunks[k]) >= 2 /\ SumTokens(seg_chunks[k]) <= seg_max_tokens
    /\ \E k \in 1..Len(seg_chunks) :
          Len(seg_chunks[k]) = 1 /\ SumTokens(seg_chunks[k]) > seg_max_tokens

\* C2: once the function has returned, the chunks concatenated in order are
\* exactly the rendered lines of the input in order (each line once, in one
\* chunk), and every returned string is the join of its chunk's lines.
C2_SegmentationComplete ==
    seg_pc = "done" =>
        /\ Len(seg_segments) = Len(seg_chunks)
        /\ \A k \in 1..Len(seg_segments) : seg_segments[k] = Join(seg_chunks[k])
        /\ Flatten(seg_chunks) = SegLines
        /\ Join(seg_segments) = Join(SegLines)

\* C2 witness: the function returned at least two chunks for three messages
C2_Witness ==
    /\ seg_pc = "done"
    /\ Len(seg_messages) >= 3
    /\ Len(seg_segments) >= 2

----------------------------------------------------------------------------
(* Ranker: claims *)

\* The position in the input category of the item titled t
RankInputPos(attr, t) ==
    CHOOSE k \in 1..Len(rank_input[attr]) : rank_input[attr][k].title = t

\* The score rank_and_filter computes for an item of the input
RankScore(item) == score_item(item, rank_reactions_index, 1, 0, 0)

\* C4: after rank_and_filter returns, each category holds exactly the items
\* of that category of the input whose score is at least the threshold, each
\* once and with its confidence equal to that score computed once from the
\* input item (nothing else of it changed), in descending order of score,
\* items of equal score in their input order.
C4_RankFilterOrder ==
    rank_pc = "done" =>
        \A a \in 1..Len(Attrs) :
            LET in  == rank_input[Attrs[a]]
                out == rank_result[Attrs[a]]
            IN  /\ {out[k].title : k \in 1..Len(out)} =
                       {in[k].title : k \in {j \in 1..Len(in) :
                                        RankScore(in[j]) >= rank_threshold}}
                /\ \A i, j \in 1..Len(out) :
                       i # j => out[i].title # out[j].title
                /\ \A k \in 1..Len(out) :
                       LET src == in[RankInputPos(Attrs[a], out[k].title)]
                       IN  out[k] =
                              [src EXCEPT !.confidence = RankScore(src)]
                /\ \A i, j \in 1..Len(out) :
                       i < j =>
                          /\ out[i].confidence >= out[j].confidence
                          /\ out[i].confidence = out[j].confidence =>
                                RankInputPos(Attrs[a], out[i].title)
                                   < RankInputPos(Attrs[a], out[j].title)

\* C4 witness: a category of three items returned with one item dropped, one
\* kept at exactly the threshold, and the survivors reordered
C4_Witness ==
    /\ rank_pc = "done"
    /\ \E a \in 1..Len(Attrs) :
          LET in  == rank_input[Attrs[a]]
              out == rank_result[Attrs[a]]
          IN  /\ Len(in) = 3
              /\ Len(out) = 2
              /\ out[2].confidence = rank_threshold
              /\ RankInputPos(Attrs[a], out[1].title)
                    > RankInputPos(Attrs[a], out[2].title)

----------------------------------------------------------------------------
(* Provenance linker: claims *)

\* The canonical id an evidence reference is looked up by
RefCanonical(ref) == Or(ref.msg_id, CanonicalOf(ref.platform, ref.native_id))

\* The given Messages whose canonical id is c
LinkMatches(c) ==
    {i \in 1..Len(link_messages) : MessageCanonical(link_messages[i]) = c}

\* The places of the evidence references of a brief: <<attr, item, ref>>
RefPlaces(brief) ==
    UNION { UNION { { <<Attrs[a], k, r>> :
                        r \in 1..Len(brief[Attrs[a]][k].supporting_msgs) }
                    : k \in 1..Len(brief[Attrs[a]]) }
            : a \in 1..Len(Attrs) }

RefAt(brief, p) == brief[p[1]][p[2]].supporting_msgs[p[3]]

\* C5: after attach_links returns, every evidence reference whose
\* canonical id is that of a given Message has that Message's platform,
\* native id and canonical id, and as url the first non-empty of the
\* Message's permalink, webUrl and webLink, or no url when all are empty.
C5_LinkResolves ==
    link_pc = "done" =>
        \A p \in RefPlaces(link_input) :
            \A i \in LinkMatches(RefCanonical(RefAt(link_input, p))) :
                LET msg == link_messages[i]
                    md  == msg.metadata_json
                    out == RefAt(link_brief, p)
                IN  /\ out.platform = msg.platform
                    /\ out.native_id = msg.source_msg_id
                    /\ out.msg_id = MessageCanonical(msg)
                    /\ out.quote = RefAt(link_input, p).quote
                    /\ IF Truthy(Get(md, "permalink"))
                       THEN out.url = md["permalink"]
                       ELSE IF Truthy(Get(md, "webUrl"))
                       THEN out.url = md["webUrl"]
                       ELSE IF Truthy(Get(md, "webLink"))
                       THEN out.url = md["webLink"]
                       ELSE ~Truthy(out.url)

\* C5 witness: a reference found by its msg_id had a stale platform, native
\* id and url replaced, and the Message it matched has an empty permalink
\* and a webUrl
C5_Witness ==
    /\ link_pc = "done"
    /\ \E p \in RefPlaces(link_input) :
          \E i \in LinkMatches(RefCanonical(RefAt(link_input, p))) :
             /\ RefAt(link_input, p).native_id = "stale"
             /\ RefAt(link_brief, p).native_id = "2"
             /\ Get(link_messages[i].metadata_json, "permalink") = ""
             /\ RefAt(link_brief, p).url = "https://teams/w"

\* C6: after attach_links returns, the brief has the items and evidence
\* references it had, and every reference whose canonical id is that of
\* none of the given Messages has no url, whatever url it arrived with.
C6_UnmatchedHaveNoUrl ==
    link_pc = "done" =>
        /\ RefPlaces(link_brief) = RefPlaces(link_input)
        /\ \A a \in 1..Len(Attrs) :
              Len(link_brief[Attrs[a]]) = Len(link_input[Attrs[a]])
        /\ \A p \in RefPlaces(link_input) :
              LinkMatches(RefCanonical(RefAt(link_input, p))) = {}
                 => ~Truthy(RefAt(link_brief, p).url)

\* The position of the last fetched message with the native id of the i-th
LastOf(i) ==
    CHOOSE j \in i..Len(ing_payloads) :
        /\ NativeId(ing_platform, ing_payloads[j])
              = NativeId(ing_platform, ing_payloads[i])
        /\ \A k \in (j + 1)..Len(ing_payloads) :
              NativeId(ing_platform, ing_payloads[k])
                 # NativeId(ing_platform, ing_payloads[i])

\* What the run passed to _persist_message for the j-th fetched message
PassedArgs(j) ==
    PersistArgs(ing_platform, ing_thread_ref, ing_payloads[j],
                IF ing_platform = "outlook" /\ j > 1
                THEN ing_payloads[j - 1].id ELSE NONE)

\* The id of the User row of the author of the j-th fetched message
PassedAuthor(j) ==
    LET who == AuthorOf(ing_platform, ing_payloads[j],
                        CHOOSE p \in SlackProfiles : ~p.ok).native_id
    IN  IF Truthy(who)
        THEN Key3(db_threads[ing_thread].workspace_id, ing_platform, who)
        ELSE NONE

\* The stored row has the content ingestion was given for the j-th message
HasContentOf(row, j) ==
    /\ row.text = PassedArgs(j).text
    /\ row.text_hash = Sha1(PassedArgs(j).text)
    /\ row.parent_msg_id = PassedArgs(j).parent_id
    /\ row.author_user_id = PassedAuthor(j)
    /\ row.reactions_json = PassedArgs(j).reactions
    /\ row.metadata_json =
          Put(PassedArgs(j).metadata, "canonical_id",
              ing_platform \o ":" \o PassedArgs(j).native_id)

\* C3: when ingest_thread has run to completion, each fetched message has its
\* one Message row for (thread, source message id), and the row's text, text
\* hash, parent id, author, reactions and metadata are those this run was
\* given for it, whatever an earlier run stored; a run whose fetch holds no
\* message twice is never refused by the unique constraint.
C3_ReingestionReplaces ==
    /\ ing_pc = "done" =>
          \A i \in 1..Len(ing_payloads) :
             LET key == <<ing_thread, NativeId(ing_platform, ing_payloads[i])>>
             IN  /\ key \in DOMAIN db_messages
                 /\ HasContentOf(db_messages[key], LastOf(i))
    /\ (ing_pc = "failed" /\ ing_client /\ ing_platform \in Platforms) =>
          \E i, j \in 1..Len(ing_payloads) :
             /\ i # j
             /\ NativeId(ing_platform, ing_payloads[i])
                   = NativeId(ing_platform, ing_payloads[j])

\* A second run has completed on a message an earlier run had stored with
\* another text, other reactions and another author name
C3_Witness ==
    /\ ing_pc = "done"
    /\ \E key \in DOMAIN ing_before :
          /\ key[2] \in ing_updated
          /\ ing_before[key].text # db_messages[key].text
          /\ ing_before[key].text_hash # db_messages[key].text_hash
          /\ ing_before[key].reactions_json # db_messages[key].reactions_json

\* C8: every stored Message's metadata holds canonical_id equal to
\* "{platform}:{source_msg_id}" of that message, after any runs of
\* ingest_thread and preprocess_thread; and preprocess_thread gives that
\* value to a message that comes to it without one.
C8_CanonicalIdStored ==
    \A key \in DOMAIN db_messages :
       LET msg == db_messages[key]
           without == [msg EXCEPT !.metadata_json =
                          [k \in (DOMAIN @) \ {"canonical_id"} |-> @[k]]]
       IN  /\ "canonical_id" \in DOMAIN msg.metadata_json
           /\ msg.metadata_json["canonical_id"]
                 = msg.platform \o ":" \o msg.source_msg_id
           /\ PreprocessedMessage(without).metadata_json["canonical_id"]
                 = msg.platform \o ":" \o msg.source_msg_id

\* Messages were inserted by one run, updated by a second, and preprocessed
C8_Witness ==
    /\ ing_pc = "preprocessed"
    /\ ing_updated # {}
    /\ \E key \in DOMAIN db_messages :
          /\ key[2] \notin ing_updated
          /\ key \notin DOMAIN ing_before

\* The canonical ids of the Messages stored for the thread of the run
IngestedIds ==
    {MessageCanonical(db_messages[key]) :
        key \in {k \in DOMAIN db_messages : k[1] = ing_thread}}

\* C7: in the CondenseResult a condense run saves and publishes, every
\* evidence reference's msg_id is the canonical id of a Message ingested for
\* the thread; a reference to any other id has been dropped on the way.
C7_SavedRefsAreIngested ==
    /\ ing_pc \in {"saved", "published"} =>
          \A ref \in RefsOf(db_briefs[cond_run_id].json_blob) :
             ref.msg_id \in IngestedIds
    /\ ing_pc = "published" =>
          \A ref \in RefsOf(cond_published) : ref.msg_id \in IngestedIds

\* The calls of trigger_condense made for the i-th notification
CallsFor(i) == {k \in 1..Len(ntf_calls) : ntf_calls[k].notification = i}

\* The thread reference of the one call made for the i-th notification
RefFor(i) == ntf_calls[CHOOSE k \in CallsFor(i) : TRUE].thread_ref

\* The notifications the handler has gone through
Handled == IF Truthy(ntf_token) THEN {} ELSE 1..(ntf_i - 1)

\* C9: for a Teams channel notification with resource
\* /teams('T')/channels('C')/messages('M'), C percent-encoded, and resourceData
\* {id: M, conversationId, tenantId, channelIdentity: {teamId, channelId}},
\* graph_notifications triggers exactly one msteams condense whose thread
\* reference has conversation_type "channel", team_id T, channel_id the decoded
\* channel id, message_id M, tenant_id and conversation_id from resourceData,
\* resource as received, and neither "id" nor "conversationId"; equal
\* notifications give equal thread references.
C9_TeamsChannelNotification ==
    /\ \A i \in Handled :
          \A T \in NoteTeams, C \in NoteChannels, M \in NoteChatMessages,
             conv \in NoteConversations, tenant \in NoteTenants :
             ntf_value[i] = TeamsChannelNote(T, C, M, conv, tenant) =>
                /\ Cardinality(CallsFor(i)) = 1
                /\ \A k \in CallsFor(i) : ntf_calls[k].platform = "msteams"
                /\ {"conversation_type", "team_id", "channel_id", "message_id",
                    "tenant_id", "conversation_id", "resource"}
                      \subseteq DOMAIN RefFor(i)
                /\ RefFor(i)["conversation_type"] = "channel"
                /\ RefFor(i)["team_id"] = T
                /\ RefFor(i)["channel_id"] = C
                /\ RefFor(i)["message_id"] = M
                /\ RefFor(i)["tenant_id"] = tenant
                /\ RefFor(i)["conversation_id"] = conv
                /\ RefFor(i)["resource"] = ntf_value[i].resource
                /\ "id" \notin DOMAIN RefFor(i)
                /\ "conversationId" \notin DOMAIN RefFor(i)
    /\ \A i, j \in Handled :
          (ntf_value[i] \in ChannelNotes /\ ntf_value[i] = ntf_value[j]) =>
             RefFor(i) = RefFor(j)

\* The handler has returned after two equal Teams channel notifications whose
\* channel id is written with percent escapes, and has triggered two condenses
C9_Witness ==
    /\ ntf_pc = "done"
    /\ ntf_response = "accepted"
    /\ Len(ntf_value) = 2
    /\ ntf_value[1] \in ChannelNotes
    /\ ntf_value[1] = ntf_value[2]
    /\ Contains(ntf_value[1].resource, "%20")
    /\ Len(ntf_calls) = 2

\* C10: for a mailbox notification with resource /users('U')/messages('M'), U
\* percent-encoded, and resourceData {id: M, conversationId, tenantId},
\* graph_notifications triggers exactly one outlook condense whose thread
\* reference has mailbox the decoded U, message_id M, conversation_id and
\* tenant_id from resourceData, resource as received, and neither "id" nor
\* "conversationId".
C10_MailboxNotification ==
    \A i \in Handled :
       \A U \in NoteMailboxes, M \in NoteMailMessages,
          conv \in NoteConversations, tenant \in NoteTenants :
          ntf_value[i] = MailboxNote(U, M, conv, tenant) =>
             /\ Cardinality(CallsFor(i)) = 1
             /\ \A k \in CallsFor(i) : ntf_calls[k].platform = "outlook"
             /\ {"mailbox", "message_id", "tenant_id", "conversation_id",
                 "resource"} \subseteq DOMAIN RefFor(i)
             /\ RefFor(i)["mailbox"] = U
             /\ RefFor(i)["message_id"] = M
             /\ RefFor(i)["tenant_id"] = tenant
             /\ RefFor(i)["conversation_id"] = conv
             /\ RefFor(i)["resource"] = ntf_value[i].resource
             /\ "id" \notin DOMAIN RefFor(i)
             /\ "conversationId" \notin DOMAIN RefFor(i)

\* The handler has returned after a mailbox notification whose mailbox is
\* written with percent escapes, and has triggered a condense for it
C10_Witness ==
    /\ ntf_pc = "done"
    /\ ntf_response = "accepted"
    /\ \E i \in 1..Len(ntf_value) :
          /\ ntf_value[i] \in MailboxNotes
          /\ Contains(ntf_value[i].resource, "%40")
          /\ CallsFor(i) # {}

----------------------------------------------------------------------------
(* Resource parser: claims *)

\* The mapping of a sequence of pairs: each name with its values in path order
RECURSIVE ExpectedParse(_, _)
ExpectedParse(pairs, parsed) ==
    IF pairs = <<>> THEN parsed
    ELSE ExpectedParse(Tail(pairs),
                       AppendTo(parsed, Head(pairs).name, Head(pairs).value))

\* C11: for a path built from (known entity name, value) pairs, each rendered
\* bare, as name('value') or as name("value") with the value
\* percent-encoded, the parser returns exactly the mapping of each name to its
\* decoded values in path order.
C11_ParseRoundTrip ==
    prs_pc = "returned" /\ prs_pairs # <<>>
       => prs_parsed = ExpectedParse(prs_pairs, EmptyDict)

\* C12: the parser returns for every input, and for an empty or malformed
\* resource it returns the empty mapping.
C12_MalformedYieldsEmpty ==
    prs_pc = "returned" /\ prs_resource \in MalformedResources
       => prs_parsed = EmptyDict

----------------------------------------------------------------------------
(* Notification handler: claims *)

\* The positions among the first n notifications whose thread reference is
\* resolvable, in payload order
RECURSIVE ResolvablePositions(_)
ResolvablePositions(n) ==
    IF n = 0 THEN <<>>
    ELSE IF ntf_value[n] \in UnresolvableNotes THEN ResolvablePositions(n - 1)
    ELSE Append(ResolvablePositions(n - 1), n)

\* The platform a resolvable notification is condensed on
ExpectedPlatform(note) ==
    IF note \in ChannelNotes \cup ResolvableOtherNotes THEN "msteams"
    ELSE "outlook"

\* C13: the handler triggers a run for exactly the message notifications
\* whose thread reference is resolvable, once each and in payload order; a
\* notification without a resolvable team, channel, message, mailbox or
\* conversation id triggers nothing and does not stop the ones after it; the
\* handler returns status accepted.
C13_SkipsUnresolvable ==
    ntf_pc \in {"handling", "done"} /\ ~Truthy(ntf_token)
       => /\ [k \in 1..Len(ntf_calls) |-> ntf_calls[k].notification]
                = ResolvablePositions(ntf_i - 1)
          /\ \A k \in 1..Len(ntf_calls) :
                /\ ntf_calls[k].platform
                      = ExpectedPlatform(ntf_value[ntf_calls[k].notification])
                /\ DOMAIN ntf_calls[k].thread_ref # {}
          /\ ntf_pc = "done"
                => ntf_i = Len(ntf_value) + 1 /\ ntf_response = "accepted"

----------------------------------------------------------------------------
(* Preprocessor: claims *)

\* C14: text normalization is idempotent: a second preprocess_thread run over
\* a message changes no text, normalize(normalize(t)) = normalize(t).
C14_NormalizeIdempotent ==
    nrm_runs >= 2 => nrm_msg.text = nrm_first.text

----------------------------------------------------------------------------
(* Condense run: failure of the extraction *)

\* The completion answered the current run with output that fails validation
InvalidOutput == cond_completions >= 1 /\ ~cond_raw.valid

\* C15: when the completion output fails schema validation the run ends in
\* failure, no Brief is saved and nothing is published by that run, and the
\* completion request was issued once (a run issues it at most once).
C15_InvalidOutputIsFatal ==
    /\ cond_completions <= 1
    /\ InvalidOutput
          => /\ ing_pc \in {"failed", "idle"}
             /\ cond_completions = 1
             /\ cond_brief = EmptyDict
             /\ db_briefs = cond_briefs_before
             /\ cond_published = EmptyDict

C15_Witness ==
    /\ InvalidOutput
    /\ ing_pc = "idle"
    /\ Len(cond_messages) >= 1
    /\ cond_segments # <<>>

----------------------------------------------------------------------------
(* Ingestion: the call that is refused *)

\* The current call of ingest_thread lacks the platform's client, or names a
\* platform that is not supported
RefusedCall ==
    ing_pc # "idle" /\ (~ing_client \/ ing_platform \notin Platforms)

\* C16: ingest_thread without the platform's client, or for an unsupported
\* platform, raises before any fetch and before it creates or modifies any
\* Workspace, Channel, User, Thread or Message.
C16_RefusedBeforeSideEffects ==
    /\ [](RefusedCall => ing_pc = "failed" /\ ing_i = 0 /\ SessionEmpty)
    /\ [][RefusedCall \/ RefusedCall' => UNCHANGED dbVars]_vars

C16_Witness ==
    /\ RefusedCall
    /\ ing_platform = "msteams"
    /\ db_messages # EmptyDict

----------------------------------------------------------------------------
(* Concurrent ingestion: claims *)

RaceOver == \A p \in RaceRuns : rc_phase[p] \in {"done", "failed"}

\* C17: when two runs for the same thread reference interleave, both
\* complete, and the store ends with exactly one Workspace, Channel, Thread,
\* User and Message for the natural keys, each as one of the two runs wrote
\* it.
C17_ConcurrentRunsConverge ==
    rc_platform # NONE /\ RaceOver
       => /\ \A p \in RaceRuns : rc_phase[p] = "done"
          /\ \A k \in 1..Len(RaceTables) :
                \E r \in rc_rows :
                   /\ r.table = RaceTables[k]
                   /\ r.table = "workspaces" \/ r.writer \in RaceRuns
                   /\ \A q \in rc_rows : q.table = RaceTables[k] => q = r

----------------------------------------------------------------------------
(* Ingestion: the run that does not complete *)

\* The position of the last of the first k fetched messages with the native
\* id of the i-th
LastUpsertOf(i, k) ==
    CHOOSE j \in i..k :
        /\ NativeId(ing_platform, ing_payloads[j])
              = NativeId(ing_platform, ing_payloads[i])
        /\ \A m \in (j + 1)..k :
              NativeId(ing_platform, ing_payloads[m])
                 # NativeId(ing_platform, ing_payloads[i])

\* C18: each message upsert is committed on its own: when a run is cancelled
\* or fails after k of the fetched messages were upserted, the committed
\* store holds those k Message rows as the run wrote them.
C18_UpsertsAreDurable ==
    ing_pc \in {"cancelled", "failed"} /\ ing_thread # NONE
       => \A i \in 1..(ing_i - 1) :
             LET key == <<ing_thread, NativeId(ing_platform, ing_payloads[i])>>
             IN  /\ key \in DOMAIN db_messages
                 /\ HasContentOf(db_messages[key], LastUpsertOf(i, ing_i - 1))

----------------------------------------------------------------------------
(* Segmenter: greedy accumulation *)

\* Each closed chunk was closed because the first line of what follows it
\* (the next chunk, or the chunk being filled) did not fit
ChunksClosedWhenFull ==
    /\ \A k \in 1..(Len(seg_chunks) - 1) :
          SumTokens(seg_chunks[k]) + count_tokens(seg_chunks[k + 1][1])
             > seg_max_tokens
    /\ (seg_pc = "loop" /\ seg_chunks # <<>>)
          => /\ seg_buf # <<>>
             /\ SumTokens(seg_chunks[Len(seg_chunks)]) + count_tokens(seg_buf[1])
                   > seg_max_tokens

\* C19 as stated: a chunk is closed only when the next line would not fit,
\* and when all lines together cost at most max_tokens exactly one chunk with
\* every message is returned.
C19_GreedyAsStated ==
    /\ ChunksClosedWhenFull
    /\ (seg_pc = "done" /\ SumTokens(SegLines) <= seg_max_tokens)
          => /\ Len(seg_segments) = 1
             /\ seg_chunks = <<SegLines>>

\* C19 amended: the single chunk is returned when the message list is not
\* empty; for an empty list no chunk is returned.
C19_Greedy ==
    /\ ChunksClosedWhenFull
    /\ (seg_pc = "done" /\ SegLines # <<>>
           /\ SumTokens(SegLines) <= seg_max_tokens)
          => /\ seg_segments = <<Join(SegLines)>>
             /\ seg_chunks = <<SegLines>>
    /\ (seg_pc = "done" /\ SegLines = <<>>) => seg_segments = <<>>

\* C19 witness: the function returned several chunks, the first of several
\* lines, closed by a line that would have fitted an empty chunk
C19_Witness ==
    /\ seg_pc = "done"
    /\ Len(seg_chunks) >= 2
    /\ Len(seg_chunks[1]) >= 2
    /\ count_tokens(seg_chunks[2][1]) <= seg_max_tokens


----------------------------------------------------------------------------
(* Teams adapter: claims *)

\* The message id the adapter was given: the reference's message_id, or for
\* an activity the invoke payload's id, else the replied-to id, else the
\* conversation id
GivenMessageId ==
    IF tms_source = "thread_ref"
    THEN IF "message_id" \in DOMAIN tms_input THEN tms_input["message_id"] ELSE ""
    ELSE IF tms_input.payload_id # NONE THEN tms_input.payload_id
         ELSE IF tms_input.reply_to_id # NONE THEN tms_input.reply_to_id
         ELSE tms_input.conversation_id

\* C20: the Teams adapter carries the message id through unchanged. A context
\* built from a thread reference has the reference's message_id as thread_id
\* and in its metadata, and serializing that context gives the same
\* message_id back. send_processing_notice followed by publish_brief reach
\* the publisher as exactly one post_processing and then one publish_brief,
\* both with the context's metadata carrying that message id, the second
\* with the very brief that was handed in.
C20_MessageIdPreserved ==
    /\ tms_pc \in {"context", "serialized", "noticed", "done"} =>
          /\ tms_context.thread_id = GivenMessageId
          /\ tms_context.metadata["message_id"] = GivenMessageId
    /\ tms_pc \in {"serialized", "noticed", "done"} /\ tms_serialized # EmptyDict =>
          tms_serialized.message_id = GivenMessageId
    /\ tms_pc \in {"start", "context", "serialized"} => tms_calls = <<>>
    /\ tms_pc = "noticed" =>
          /\ Len(tms_calls) = 1
          /\ tms_calls[1].method = "post_processing"
          /\ tms_calls[1].metadata["message_id"] = GivenMessageId
    /\ tms_pc = "done" =>
          /\ Len(tms_calls) = 2
          /\ tms_calls[1].method = "post_processing"
          /\ tms_calls[1].metadata["message_id"] = GivenMessageId
          /\ tms_calls[2].method = "publish_brief"
          /\ tms_calls[2].metadata["message_id"] = GivenMessageId
          /\ tms_calls[2].metadata = tms_context.metadata
          /\ tms_calls[2].brief = tms_brief

\* C20 witness: a context built from a reference with a message id was
\* serialized, and both publisher calls were made
C20_Witness ==
    /\ tms_pc = "done"
    /\ tms_source = "thread_ref"
    /\ "message_id" \in DOMAIN tms_input
    /\ tms_input["message_id"] = "thread-message-id"
    /\ tms_serialized # EmptyDict
    /\ Len(tms_calls) = 2


----------------------------------------------------------------------------
(* Extraction: claims *)

\* A reference of the answer lacks a field: the key is absent or its value empty
Lacks(ref, field) == field \notin DOMAIN ref \/ ref[field] = ""

\* The platform and the msg_id the result is to hold for a reference of the
\* answer
FilledPlatform(ref) ==
    IF Lacks(ref, "platform") THEN ext_platform ELSE ref["platform"]

FilledMsgId(ref) ==
    IF Lacks(ref, "msg_id")
    THEN FilledPlatform(ref) \o ":" \o ref["native_id"] ELSE ref["msg_id"]

\* The result holds, list by list and position by position, the answer's
\* references with the lacking fields filled
ReferencesFilled ==
    \A a \in 1..Len(Attrs) :
       LET given == DefaultedLists(ext_raw)[Attrs[a]]
           got == ext_result[Attrs[a]]
       IN  /\ Len(got) = Len(given)
           /\ \A i \in 1..Len(given) :
                 /\ Len(got[i].supporting_msgs) = Len(given[i].supporting_msgs)
                 /\ \A r \in 1..Len(given[i].supporting_msgs) :
                       /\ got[i].supporting_msgs[r].platform =
                             FilledPlatform(given[i].supporting_msgs[r])
                       /\ got[i].supporting_msgs[r].msg_id =
                             FilledMsgId(given[i].supporting_msgs[r])
                       /\ got[i].supporting_msgs[r].platform # ""
                       /\ got[i].supporting_msgs[r].msg_id # ""

\* C21: extract_items accepts an answer whose references lack platform or
\* msg_id (absent or empty) and returns a result in which each such
\* reference has the request's platform and msg_id = platform:native_id;
\* missing top-level lists default to empty; every reference of the result
\* has a non-empty platform and msg_id.
C21_LackingFieldsFilled ==
    (ext_pc \in {"returned", "raised"} /\ ValidThreadRef(ext_thread_ref)) =>
        /\ ext_pc = "returned"
        /\ ReferencesFilled


----------------------------------------------------------------------------
(* Thread reference builders: claims *)

\* The chat id the notification names: resourceData.chatId, else the chats
\* token of the resource
NamedChatId ==
    IF "chatId" \in DOMAIN bld_note.resourceData /\ bld_note.resourceData["chatId"] # ""
    THEN bld_note.resourceData["chatId"]
    ELSE IF StartsWith(bld_note.resource, "/chats('19:chat')") THEN "19:chat"
    ELSE NONE

\* The Teams builder has run on the notification
TeamsBuilt == bld_pc = "built" /\ bld_builder = "msteams"

\* The notification names a message: in resourceData or in the resource
NamesMessage ==
    \/ "id" \in DOMAIN bld_note.resourceData
    \/ Contains(bld_note.resource, "/messages('")

\* C22: when the notification names no chat id (no resourceData.chatId, no
\* chats token in the resource) but carries resourceData.conversationId, the
\* Teams builder builds a chat conversation with chat_id = conversationId;
\* and a reference built from an explicit chatId or a chats token is a chat
\* conversation with that chat id.
C22_ChatIdFallback ==
    /\ (/\ TeamsBuilt
        /\ NamedChatId = NONE
        /\ "conversationId" \in DOMAIN bld_note.resourceData
        /\ NamesMessage)
       => /\ bld_built.ok
          /\ bld_built.ref["conversation_type"] = "chat"
          /\ "chat_id" \in DOMAIN bld_built.ref
          /\ bld_built.ref["chat_id"] = bld_note.resourceData["conversationId"]
    /\ (TeamsBuilt /\ NamedChatId # NONE /\ bld_built.ok)
       => /\ bld_built.ref["conversation_type"] = "chat"
          /\ bld_built.ref["chat_id"] = NamedChatId


----------------------------------------------------------------------------
(* Resource parser: a bare entity name followed by another entity *)

\* The mapping of first/second('key'): the first entity with an empty value,
\* the second with its decoded key, or with an empty value when it has none
ExpectedEntities(e) ==
    AppendTo(AppendTo(EmptyDict, e.first, ""), e.second,
             IF e.key = NONE THEN "" ELSE Unquote(e.key))

\* C23: a bare entity name takes the following segment as its value only when
\* that segment is not the start of the next entity: followed by a known
\* entity name, bare (messages) or with a parenthesized key (messages('X')),
\* the first entity gets an empty value and the following segment is parsed
\* as its own entity, so me/messages('X') yields messages -> [X].
C23_NextEntityIsNoValue ==
    \A e \in EntityPaths :
       (prs_pc = "returned" /\ prs_resource = RenderEntityPath(e))
          => prs_parsed = ExpectedEntities(e)


----------------------------------------------------------------------------
(* Teams builder: the message id *)

\* The first non-empty of resourceData.replyToId, the first messages value
\* parsed from the resource, resourceData.id; NONE when all are empty
ResolvedMessageId ==
    LET reply == Get(bld_note.resourceData, "replyToId")
        token == FirstOf(parse_graph_resource(bld_note.resource), "messages")
        event == Get(bld_note.resourceData, "id")
    IN  IF reply # NONE /\ reply # "" THEN reply
        ELSE IF token # NONE /\ token # "" THEN token
        ELSE IF event # NONE /\ event # "" THEN event
        ELSE NONE

\* C24: the Teams builder sets message_id to the first non-empty of
\* resourceData.replyToId, the first messages value parsed from the resource
\* and resourceData.id; it returns no reference when all three are empty; the
\* reference carries event_message_id = resourceData.id exactly when
\* resourceData.id is non-empty and differs from the resolved message_id.
C24_MessageIdPriority ==
    TeamsBuilt =>
       LET event == Get(bld_note.resourceData, "id")
       IN  /\ ResolvedMessageId = NONE => ~bld_built.ok
           /\ bld_built.ok =>
                 /\ bld_built.ref["message_id"] = ResolvedMessageId
                 /\ ("event_message_id" \in DOMAIN bld_built.ref)
                       <=> (event # NONE /\ event # "" /\ event # ResolvedMessageId)
                 /\ "event_message_id" \in DOMAIN bld_built.ref
                       => bld_built.ref["event_message_id"] = event

\* C24 witness: a reply notification whose id differs from the message the
\* resource names, built into a reference that carries both
C24_Witness ==
    /\ TeamsBuilt
    /\ bld_built.ok
    /\ bld_note.resource = "/teams('team-123')/channels('19%3Aabc')/messages('5')/replies('7')"
    /\ "replyToId" \notin DOMAIN bld_note.resourceData
    /\ Get(bld_note.resourceData, "id") = "7"
    /\ bld_built.ref["message_id"] = "5"
    /\ Get(bld_built.ref, "event_message_id") = "7"


----------------------------------------------------------------------------
(* Notification handler: the thread reference and the extraction schema *)

\* C25: every thread reference the notification handler hands to
\* trigger_condense fits the schema of provenance.source_thread_ref, a
\* mapping whose values are all strings, also when resourceData carries
\* nested fields such as channelIdentity; so the reference of a resolvable
\* notification never makes the extraction fail.
C25_ThreadRefFitsSchema ==
    \A k \in 1..Len(ntf_calls) : ValidThreadRef(ntf_calls[k].thread_ref)


----------------------------------------------------------------------------
(* Ingestion: a message fetched twice in one run *)

\* The fetch of the run holds some native id more than once
FetchRepeatsAnId ==
    \E i, j \in 1..Len(ing_payloads) :
       /\ i # j
       /\ NativeId(ing_platform, ing_payloads[i]) = NativeId(ing_platform, ing_payloads[j])

\* C26: a run whose fetched list holds the same native message id more than
\* once completes, with the one Message row of that id holding the content
\* of its last occurrence: the existence check of _persist_message sees the
\* messages added earlier in the same run.
C26_RepeatedIdOneRow ==
    (/\ ing_pc \in {"done", "failed"}
     /\ ing_client
     /\ ing_platform \in Platforms
     /\ FetchRepeatsAnId)
    => /\ ing_pc = "done"
       /\ \A i \in 1..Len(ing_payloads) :
             LET key == <<ing_thread, NativeId(ing_platform, ing_payloads[i])>>
             IN  /\ key \in DOMAIN db_messages
                 /\ HasContentOf(db_messages[key], LastOf(i))


----------------------------------------------------------------------------
(* Condense run: provenance.message_ids of the saved result *)

\* The saved result of the run under way
SavedResult == db_briefs[cond_run_id].json_blob

\* The run has saved its result
RunHasSaved == ing_pc \in {"saved", "published"} /\ cond_run_id \in DOMAIN db_briefs

\* The msg_id a reference of the answer has once extraction has filled it
ExtractedMsgId(ref) ==
    IF ref.msg_id # "" THEN ref.msg_id
    ELSE (IF ref.platform # "" THEN ref.platform ELSE ing_platform)
            \o ":" \o ref.native_id

\* C27 as stated: in the saved CondenseResult, provenance.message_ids is the
\* duplicate-free set of the msg_ids of the evidence references of the items
\* the result still contains.
C27_MessageIdsOfKeptItems ==
    RunHasSaved =>
       SavedResult.provenance.message_ids = {ref.msg_id : ref \in RefsOf(SavedResult)}

\* C27: in the saved CondenseResult, provenance.message_ids is the
\* duplicate-free set of the msg_ids of the evidence references of the items
\* extract_items returned, those rank_and_filter dropped included; it
\* contains the msg_id of every evidence reference the result still holds.
C27_MessageIdsOfExtractedItems ==
    RunHasSaved =>
       /\ SavedResult.provenance.message_ids
             = {ExtractedMsgId(ref) : ref \in RefsOf(cond_raw.lists)}
       /\ {ref.msg_id : ref \in RefsOf(SavedResult)}
             \subseteq SavedResult.provenance.message_ids

\* C27 witness: a saved result from which ranking dropped an item, whose
\* message_ids still names the dropped item's evidence
C27_Witness ==
    /\ RunHasSaved
    /\ Len(SavedResult.decisions) < Len(cond_raw.lists["decisions"])
    /\ SavedResult.provenance.message_ids
          # {ref.msg_id : ref \in RefsOf(SavedResult)}


----------------------------------------------------------------------------
(* Scoring: claims *)

\* The reactions on the evidence of the item: for each reference the count
\* the index holds for its msg_id, 0 when it holds none
ReactionsOnEvidence ==
    LET refs == scr_item.supporting_msgs
        F[k \in 0..Len(refs)] ==
            IF k = 0 THEN 0
            ELSE F[k - 1] + (IF refs[k].msg_id \in DOMAIN scr_index
                             THEN scr_index[refs[k].msg_id] ELSE 0)
    IN  F[Len(refs)]

\* confidence + 0.05 x reactions + 0.05 x seniority + recency - contradiction
\* clamped to [0, 1], in hundredths
ClampedScore(seniority, recency, contradiction) ==
    LET raw == scr_item.confidence + 5 * ReactionsOnEvidence + 5 * seniority
                  + recency - contradiction
    IN  IF raw < 0 THEN 0 ELSE IF raw > 100 THEN 100 ELSE raw

\* The score of an item none of whose evidence has reactions: no bonus
UnreactedScore ==
    LET raw == scr_item.confidence + 5 * scr_weights.seniority
                  + scr_weights.recency - scr_weights.contradiction
    IN  IF raw < 0 THEN 0 ELSE IF raw > 100 THEN 100 ELSE raw

\* C28: score_item returns a value in [0,1] for every item and reaction
\* index: confidence + 0.05 x (reactions over the item's evidence msg_ids, 0
\* for ids absent from the index) + 0.05 x seniority + recency -
\* contradiction, clamped to [0,1]; rank_and_filter stores this value, with
\* seniority 1, recency 0 and contradiction 0, as the item's confidence; an
\* item with no reactions gets a zero reaction bonus.
C28_ScoreClamped ==
    /\ scr_pc \in {"scored", "ranked"} =>
          /\ scr_score \in 0..100
          /\ scr_score = ClampedScore(scr_weights.seniority, scr_weights.recency,
                                      scr_weights.contradiction)
          /\ (\A k \in 1..Len(scr_item.supporting_msgs) :
                 scr_item.supporting_msgs[k].msg_id \notin DOMAIN scr_index) =>
                scr_score = UnreactedScore
    /\ scr_pc = "ranked" =>
          /\ Len(scr_ranked) = 1
          /\ scr_ranked[1].confidence = ClampedScore(1, 0, 0)
          /\ scr_ranked[1].confidence \in 0..100

\* C28 witness: an item whose raw score exceeds 1 was scored 1
C28_Witness ==
    /\ scr_pc = "ranked"
    /\ scr_item.confidence + 5 * ReactionsOnEvidence + 5 > 100
    /\ scr_score = 100
    /\ scr_ranked[1].confidence = 100
    /\ scr_weights = [seniority |-> 1, recency |-> 0, contradiction |-> 0]


----------------------------------------------------------------------------
(* Background run: claims *)

\* The run under way, or just ended, has saved its brief; has published it
RunSaved == \E r \in prc_briefs : r.task = prc_task.task

RunPublished == \E k \in 1..Len(prc_published) : prc_published[k] = prc_task.task

\* A run has been started
RunStarted == prc_pc # "idle"

C30_RunIdOfTrigger ==
    /\ \A k \in 1..Len(prc_queue) :
          prc_queue[k].returned # NONE =>
             /\ prc_queue[k].options["run_id"] = prc_queue[k].returned
             /\ prc_queue[k].returned \in {prc_returned[j] : j \in 1..Len(prc_returned)}
    /\ (RunStarted /\ prc_task.returned # NONE) =>
          /\ prc_run_id = prc_task.returned
          /\ \A r \in prc_briefs : r.task = prc_task.task => r.run_id = prc_task.returned
    /\ \A j \in 1..Len(prc_returned) : prc_returned[j] # "rc-given"
    /\ \A i, j \in 1..Len(prc_returned) : i # j => prc_returned[i] # prc_returned[j]
    /\ prc_caller.after = prc_caller.before
    /\ \A r, q \in prc_briefs : r.run_id = q.run_id => r = q

\* C30 witness: trigger_condense was called with options naming rc-given, and
\* the run it started has saved its brief under the id that was returned
C30_Witness ==
    /\ prc_pc = "returned"
    /\ prc_task.returned # NONE
    /\ "run_id" \in DOMAIN prc_caller.before
    /\ prc_caller.before["run_id"] = "rc-given"
    /\ \E r \in prc_briefs : r.task = prc_task.task /\ r.run_id = prc_task.returned
    /\ Len(prc_returned) = 1

=============================================================================
